---- MODULE Spec2Model ----
(***************************************************************************)
(* A model of suziQ: the buffer cache over the relation files, the heap    *)
(* with MVCC visibility, the segmented write-ahead log, the transaction    *)
(* manager, checkpoints and crash recovery, and the B-tree index.          *)
(*                                                                         *)
(* Three next-state relations share the variables:                         *)
(*   Spec          transactions, heap inserts and heap scans of one        *)
(*                 running process;                                        *)
(*   SpecRecovery  the same plus checkpoints, process crashes and          *)
(*                 DB::open (startup with WAL redo);                       *)
(*   SpecBTree     index inserts and forward index scans.                  *)
(*                                                                         *)
(* Byte quantities are kept as the code computes them (page offsets, free  *)
(* space, WAL chunk framing, LSNs); tuple payloads are abstracted to an    *)
(* identity and a length.                                                  *)
(***************************************************************************)
EXTENDS Integers, Sequences, FiniteSets, TLC

(* ---- bounds of the exploration ---- *)
XidBits == 6
MaxXid == 2
MaxTuples == 2
MaxPages == 2
MaxScans == 2
CacheCapacity == 1
SegmentPages == 2
MaxCheckpoints == 1
MaxCrashes == 2
SmallLen == 2700
LargeLen == 5400

(* ---- constants of the program ---- *)
PAGE_SIZE == 8192
P_PAYLOAD == 8
P_POINTERS == 4
LINE_POINTER_SIZE == 4
SEGMENT_PAGE_SIZE == 8192
RECORD_HEADER_SIZE == 7
HeapTupleHeaderLen == 20
HeapInsertLogLen == 50
CommitLogLen == 24
CheckpointLogLen == 32

Min(a, b) == IF a < b THEN a ELSE b

(* ---- XID arithmetic (concurrency/mod.rs), at width XidBits ---- *)
XidMod == 2 ^ XidBits

is_invalid(x) == x = 0

inc(x) == IF (x + 1) % XidMod = 0 THEN 1 ELSE (x + 1) % XidMod

dec(x) == IF (x - 1) % XidMod = 0 THEN XidMod - 1 ELSE (x - 1) % XidMod

(* cmp with the difference cast to one bit less than the width *)
cmp_narrow(a, b) ==
    IF is_invalid(a) \/ is_invalid(b)
    THEN (IF a < b THEN -1 ELSE IF a = b THEN 0 ELSE 1)
    ELSE LET d == (a - b) % (XidMod \div 2)
             delta == IF d >= XidMod \div 4 THEN d - XidMod \div 2 ELSE d
         IN  IF delta < 0 THEN -1 ELSE IF delta = 0 THEN 0 ELSE 1

cmp(a, b) ==
    IF is_invalid(a) \/ is_invalid(b)
    THEN (IF a < b THEN -1 ELSE IF a = b THEN 0 ELSE 1)
    ELSE LET d == (a - b) % XidMod
             delta == IF d >= XidMod \div 2 THEN d - XidMod ELSE d
         IN  IF delta < 0 THEN -1 ELSE IF delta = 0 THEN 0 ELSE 1

(* ---- snapshots ---- *)
is_xid_in_progress(s, x) ==
    IF cmp(x, s.min_xid) < 0 THEN FALSE
    ELSE IF cmp(x, s.max_xid) >= 0 THEN TRUE
    ELSE x \in s.xips

record_snapshot(active, latest, self) ==
    LET max_xid == inc(latest)
        below == {x \in active : cmp(x, max_xid) < 0}
        min_xid == IF below = {} THEN max_xid
                   ELSE CHOOSE m \in below : \A y \in below : cmp(m, y) <= 0
    IN  [min_xid |-> min_xid, max_xid |-> max_xid, xips |-> below \ {self}]

(* ---- item pages (storage/mod.rs) ---- *)
ZeroPage == [lsn |-> 0, lower |-> 0, upper |-> 0, items |-> <<>>]

is_new(p) == p.upper = 0

get_free_space(p) ==
    IF p.upper - p.lower < LINE_POINTER_SIZE THEN 0
    ELSE p.upper - p.lower - LINE_POINTER_SIZE

num_line_pointers(p) ==
    IF p.lower < P_POINTERS THEN 0
    ELSE (p.lower - P_POINTERS) \div LINE_POINTER_SIZE

init_item_page(p) ==
    [p EXCEPT !.lower = P_POINTERS, !.upper = PAGE_SIZE - P_PAYLOAD,
              !.items = <<>>]

InsertAt(s, i, e) == SubSeq(s, 1, i - 1) \o <<e>> \o SubSeq(s, i, Len(s))

(* ItemPageWriter::put_item with overwrite = false on a page whose item    *)
(* payload is payload_len bytes long: offsets start from 1, target = 0     *)
(* stands for None.  There is no test of the free space.  When the item is *)
(* longer than upper the u16 subtraction overflows: a debug build panics  *)
(* there, a release build wraps and panics at the copy of the item bytes,  *)
(* past the end of the payload.                                            *)
item_put(p, item, target, payload_len) ==
    LET limit == num_line_pointers(p) + 1
        offset == IF target = 0 THEN limit ELSE target
    IN  IF p.lower < P_POINTERS \/ p.lower > p.upper \/ p.upper > payload_len
        THEN [ok |-> FALSE, panic |-> FALSE, page |-> p, offset |-> 0]
        ELSE IF item.len > p.upper
        THEN [ok |-> FALSE, panic |-> TRUE, page |-> p, offset |-> 0]
        ELSE IF offset > limit
        THEN [ok |-> FALSE, panic |-> FALSE, page |-> p, offset |-> 0]
        ELSE [ok |-> TRUE, panic |-> FALSE, offset |-> offset,
              page |-> [p EXCEPT !.upper = p.upper - item.len,
                                 !.lower = p.lower + LINE_POINTER_SIZE,
                                 !.items = InsertAt(p.items, offset, item)]]

(* put_item on a heap page *)
put_item(p, item, target) == item_put(p, item, target, PAGE_SIZE - P_PAYLOAD)

(* HeapPageViewMut::put_tuple (am/heap/heap_page.rs): slots start from 0;  *)
(* target = -1 stands for None.                                            *)
put_tuple(p, item, target) ==
    LET limit == num_line_pointers(p)
        offset == IF target = -1 THEN limit ELSE target
    IN  IF p.lower < P_POINTERS \/ p.lower > p.upper
           \/ p.upper > PAGE_SIZE - P_PAYLOAD
        THEN [ok |-> FALSE, page |-> p, offset |-> 0]
        ELSE IF offset > limit
        THEN [ok |-> FALSE, page |-> p, offset |-> 0]
        ELSE [ok |-> TRUE, offset |-> offset,
              page |-> [p EXCEPT
                  !.upper = p.upper - item.len,
                  !.lower = IF offset = limit THEN p.lower + LINE_POINTER_SIZE
                            ELSE p.lower,
                  !.items = IF offset = limit THEN Append(p.items, item)
                            ELSE [p.items EXCEPT ![offset + 1] = item]]]

(* ---- heap tuples (am/heap.rs) ---- *)
HeapTuple(id, len, xid, flags) ==
    [id |-> id, len |-> HeapTupleHeaderLen + len, flags |-> flags,
     min_xid |-> xid, max_xid |-> 0]

prepare_heap_tuple_for_insert(id, len, xid) ==
    HeapTuple(id, len, xid, {"MAX_XID_INVALID"})

(* A visibility check that accepts every tuple: with it in the place of   *)
(* is_visible a scan yields the tuples of transactions still in progress.  *)
is_visible_any(tup, table, snapshot, current_xid) ==
    [valid |-> TRUE, new_flags |-> {}]

(* HeapTuple::is_visible: table is the transaction status table.  The      *)
(* result is the pair (visible, new hint flags).                           *)
is_visible(tup, table, snapshot, current_xid) ==
    LET flags == tup.flags
        minDone == "MIN_XID_COMMITTED" \in flags
        minNow == ~minDone /\ ~is_invalid(tup.min_xid)
                  /\ tup.min_xid # current_xid
                  /\ ~is_xid_in_progress(snapshot, tup.min_xid)
                  /\ table[tup.min_xid] = "Committed"
        new_flags == IF minNow THEN {"MIN_XID_COMMITTED"} ELSE {}
        R(v, f) == [valid |-> v, new_flags |-> f]
    IN  IF ~minDone /\ is_invalid(tup.min_xid) THEN R(FALSE, {})
        ELSE IF ~minDone /\ tup.min_xid = current_xid
        THEN (IF "MAX_XID_INVALID" \in flags THEN R(TRUE, {})
              ELSE IF tup.max_xid # current_xid
              THEN R(FALSE, {"MAX_XID_INVALID"})
              ELSE R(FALSE, {}))
        ELSE IF is_xid_in_progress(snapshot, tup.min_xid) THEN R(FALSE, {})
        ELSE IF ~minDone /\ table[tup.min_xid] # "Committed"
        THEN R(FALSE, {"MIN_XID_INVALID"})
        ELSE IF "MAX_XID_INVALID" \in flags THEN R(TRUE, new_flags)
        ELSE IF "MAX_XID_COMMITTED" \notin flags
        THEN (IF tup.max_xid = current_xid THEN R(FALSE, new_flags)
              ELSE IF is_xid_in_progress(snapshot, tup.max_xid)
              THEN R(TRUE, new_flags)
              ELSE IF table[tup.max_xid] # "Committed"
              THEN R(TRUE, {"MAX_XID_INVALID"})
              ELSE R(FALSE, {"MAX_XID_COMMITTED"}))
        ELSE IF is_xid_in_progress(snapshot, tup.max_xid)
        THEN R(TRUE, new_flags)
        ELSE R(FALSE, new_flags)

(* ---- WAL segments (wal/segment.rs) ---- *)
Capacity == SegmentPages * SEGMENT_PAGE_SIZE

NewSegment(segno) ==
    [segno |-> segno, page_start |-> 0, page_allocated |-> 0,
     page_flushed |-> 0, size |-> 0, chunks |-> {}]

(* segment_start without the segment number *)
segment_start_flat(seg) == 0

segment_start(seg) == (seg.segno - 1) * Capacity

current_lsn(seg) == segment_start(seg) + seg.page_start + seg.page_allocated

flushed_lsn(seg) == segment_start(seg) + seg.page_start + seg.page_flushed

dirty(seg) == seg.page_allocated # seg.page_flushed

(* Segment::flush_page: the bytes page[flushed..allocated] are appended to *)
(* the file.                                                               *)
flush_page(seg, reset) ==
    LET rst == reset \/ seg.page_allocated + RECORD_HEADER_SIZE >= SEGMENT_PAGE_SIZE
        alloc == IF rst THEN SEGMENT_PAGE_SIZE ELSE seg.page_allocated
        size == seg.size + (alloc - seg.page_flushed)
    IN  IF rst
        THEN [seg EXCEPT !.size = size, !.page_allocated = 0, !.page_flushed = 0,
                         !.page_start = seg.page_start + SEGMENT_PAGE_SIZE]
        ELSE [seg EXCEPT !.size = size, !.page_flushed = alloc]

(* Segment::sufficient_capacity.  The count of further pages is computed   *)
(* in usize: when page_start has reached the capacity the subtraction      *)
(* wraps (release build) and the sum is taken modulo 2^64, which leaves    *)
(* 7 - page_allocated when that is not negative and a huge value           *)
(* otherwise.  (A debug build panics there; the process is then lost,      *)
(* which the Crash action covers.)                                         *)
sufficient_capacity(seg, record_size) ==
    LET pages == (Capacity - seg.page_start) \div SEGMENT_PAGE_SIZE
        remaining == SEGMENT_PAGE_SIZE - seg.page_allocated
                     + (SEGMENT_PAGE_SIZE - RECORD_HEADER_SIZE) * (pages - 1)
    IN  IF seg.page_start > Capacity THEN TRUE
        ELSE IF remaining < 0 THEN TRUE
        ELSE remaining >= record_size

(* The chunk loop of Segment::append.  A chunk is kept as its offset in    *)
(* the segment, its data length, its header type and the record it is a    *)
(* part of.                                                                *)
RECURSIVE append_chunks(_, _, _, _)
append_chunks(seg, rec, length, first) ==
    IF length = 0 THEN seg
    ELSE LET s1 == IF SEGMENT_PAGE_SIZE - seg.page_allocated <= RECORD_HEADER_SIZE
                   THEN flush_page(seg, TRUE) ELSE seg
             chunk_size == Min(length, SEGMENT_PAGE_SIZE - s1.page_allocated
                                       - RECORD_HEADER_SIZE)
             last_chunk == chunk_size = length
             type == IF first THEN (IF last_chunk THEN "Full" ELSE "First")
                     ELSE (IF last_chunk THEN "Last" ELSE "Middle")
             chunk == [off |-> s1.page_start + s1.page_allocated,
                       len |-> chunk_size, type |-> type, rec |-> rec]
             s2 == [s1 EXCEPT !.chunks = @ \cup {chunk},
                              !.page_allocated = @ + RECORD_HEADER_SIZE + chunk_size]
         IN  append_chunks(s2, rec, length - chunk_size, FALSE)

(* ---- the log (wal/mod.rs): the open segment and the closed files ---- *)
SegFile(seg) == [size |-> seg.size, chunks |-> seg.chunks]

(* Wal::append_raw; the result carries (start_pos, end_pos).               *)
append_raw(wal, rec, len) ==
    LET s0 == wal.seg
        roll == ~sufficient_capacity(s0, len)
        s1 == IF dirty(s0) THEN flush_page(s0, TRUE) ELSE s0
        w1 == IF roll
              THEN [seg |-> NewSegment(s0.segno + 1),
                    closed |-> Append(wal.closed, SegFile(s1))]
              ELSE wal
        s2 == append_chunks(w1.seg, rec, len, TRUE)
    IN  [wal |-> [w1 EXCEPT !.seg = s2],
         start_pos |-> current_lsn(w1.seg), end_pos |-> current_lsn(s2)]

(* Wal::flush that writes nothing *)
wal_flush_nothing(wal, lsn) == wal

(* Wal::flush(Some(lsn)) *)
wal_flush(wal, lsn) ==
    IF flushed_lsn(wal.seg) >= lsn THEN wal
    ELSE [wal EXCEPT !.seg = flush_page(wal.seg, FALSE)]

(* SegmentView::read_record: what a reader finds at offset p of a file.    *)
(* A byte outside every chunk is zero (header type None).                  *)
RECURSIVE read_chunks(_, _, _, _)
read_chunks(f, offset, p, started) ==
    IF f.size <= p + RECORD_HEADER_SIZE THEN [tag |-> "err"]
    ELSE LET here == {c \in f.chunks : c.off = p}
             skip == (p + 1) + SEGMENT_PAGE_SIZE - ((p + 1) % SEGMENT_PAGE_SIZE)
         IN  IF here = {}
             THEN (IF f.size <= skip + RECORD_HEADER_SIZE /\ ~started
                   THEN [tag |-> "none"]
                   ELSE read_chunks(f, offset, skip, started))
             ELSE LET c == CHOOSE c \in here : TRUE
                      q == p + RECORD_HEADER_SIZE + c.len
                  IN  IF c.type \in {"Full", "Last"}
                      THEN [tag |-> "rec", rec |-> c.rec, len |-> q - offset]
                      ELSE read_chunks(f, offset, q, TRUE)

segment_read_record(f, offset) ==
    IF f.size = 0 \/ f.size <= offset + RECORD_HEADER_SIZE THEN [tag |-> "none"]
    ELSE read_chunks(f, offset, offset, FALSE)

(* WalReader::read_record over the segment files (wal/reader.rs) *)
RECURSIVE reader_read_record(_, _)
reader_read_record(files, pos) ==
    LET segno == pos \div Capacity + 1
        segment_offset == pos % Capacity
    IN  IF segno > Len(files) THEN [tag |-> "none"]
        ELSE LET r == segment_read_record(files[segno], segment_offset)
             IN  IF r.tag = "rec"
                 THEN [tag |-> "rec", rec |-> r.rec, pos |-> pos + r.len]
                 ELSE IF r.tag = "err" THEN r
                 ELSE IF segment_offset = 0 THEN [tag |-> "none"]
                 ELSE reader_read_record(files, pos + (Capacity - segment_offset))

(* ---- the page cache (storage/page_cache.rs) ---- *)
(* A store s holds the frames (pool), the map from page numbers to frames  *)
(* (page_hash), the LRU list of unpinned frames, the relation file and the *)
(* log.  page_hash(s, num) is the frame of page num, 0 when it has none.   *)
page_hash(s, num) ==
    IF num \in DOMAIN s.page_hash THEN s.page_hash[num] ELSE 0

(* LruCache keyed by the page tag: pop removes the entry of a tag, put     *)
(* makes the tag the most recently used one, with the frame given          *)
lru_pop(lru, tag) == SelectSeq(lru, LAMBDA e : e.tag # tag)

lru_put(lru, tag, slot) == Append(lru_pop(lru, tag), [tag |-> tag, slot |-> slot])

(* StorageManager::write: a page at the end of the file extends the file *)
smgr_write(file, num, page) ==
    IF num = Len(file) THEN Append(file, page) ELSE [file EXCEPT ![num + 1] = page]

(* flush_page as it would be without the flush of the log *)
cache_flush_page_unlogged(s, slot) ==
    LET f == s.pool[slot]
    IN  [s EXCEPT !.file = smgr_write(@, f.num, f.page),
                  !.pool[slot].dirty = FALSE,
                  !.written = [lsn |-> f.page.lsn, flushed |-> flushed_lsn(s.wal.seg),
                               ok |-> @.ok /\ f.page.lsn <= flushed_lsn(s.wal.seg)]]

(* PageCache::flush_page: flush the log up to the page LSN, write the page *)
cache_flush_page(s, slot) ==
    LET f == s.pool[slot]
        w == wal_flush(s.wal, f.page.lsn)
    IN  [s EXCEPT !.wal = w,
                  !.file = smgr_write(@, f.num, f.page),
                  !.pool[slot].dirty = FALSE,
                  !.written = [lsn |-> f.page.lsn, flushed |-> flushed_lsn(w.seg),
                               ok |-> @.ok /\ f.page.lsn <= flushed_lsn(w.seg)]]

(* alloc_page that never evicts *)
alloc_page_no_evict(s, num) ==
    IF Len(s.pool) < s.cache_capacity
    THEN [ok |-> TRUE, slot |-> Len(s.pool) + 1,
          s |-> [s EXCEPT !.pool = Append(@, [num |-> num, page |-> ZeroPage,
                                             pin_count |-> 0, dirty |-> FALSE]),
                          !.page_hash = (num :> Len(s.pool) + 1) @@ @]]
    ELSE [ok |-> FALSE, slot |-> 0, s |-> s]

(* PageCache::alloc_page: a new frame while the pool is not full, else the *)
(* least recently used unpinned frame, flushed first when dirty.  The      *)
(* frame keeps its buffer.                                                 *)
alloc_page(s, num) ==
    IF Len(s.pool) < s.cache_capacity
    THEN [ok |-> TRUE, slot |-> Len(s.pool) + 1,
          s |-> [s EXCEPT !.pool = Append(@, [num |-> num, page |-> ZeroPage,
                                             pin_count |-> 0, dirty |-> FALSE]),
                          !.page_hash = (num :> Len(s.pool) + 1) @@ @]]
    ELSE IF s.lru = <<>> THEN [ok |-> FALSE, slot |-> 0, s |-> s]
    ELSE LET victim == Head(s.lru).slot
             tag == Head(s.lru).tag
             s1 == [s EXCEPT !.lru = Tail(@),
                             !.page_hash = [n \in DOMAIN @ \ {tag} |-> @[n]]]
             s2 == IF s1.pool[victim].dirty THEN cache_flush_page(s1, victim)
                   ELSE s1
         IN  [ok |-> TRUE, slot |-> victim,
              s |-> [s2 EXCEPT !.pool[victim].num = num,
                               !.page_hash = (num :> victim) @@ @]]

(* PageCache::new_page without the write that extends the file *)
new_page_in_place(s) ==
    LET pinned(a) == IF ~a.ok THEN a
                     ELSE [a EXCEPT !.s.pool[a.slot].pin_count = @ + 1]
    IN  pinned(alloc_page(s, Len(s.file) - 1))

(* PageCache::new_page: the file is extended by a zero page first *)
new_page(s) ==
    LET pinned(a) == IF ~a.ok THEN a
                     ELSE [a EXCEPT !.s.pool[a.slot].pin_count = @ + 1]
    IN  pinned(alloc_page([s EXCEPT !.file = Append(@, ZeroPage)], Len(s.file)))

(* PageCache::fetch_page.  The read of a page past the end of the file     *)
(* fails (DataCorrupted) after alloc_page has mapped the frame.            *)
fetch_page(s, num) ==
    LET hit(slot) == [ok |-> TRUE, slot |-> slot,
                      s |-> [s EXCEPT !.pool[slot].pin_count = @ + 1,
                                      !.lru = IF s.pool[slot].pin_count = 0
                                              THEN lru_pop(@, num) ELSE @]]
        read(a) == IF ~a.ok THEN a
                   ELSE IF num >= Len(s.file)
                   THEN [ok |-> FALSE, slot |-> 0, s |-> a.s]
                   ELSE [a EXCEPT !.s.pool[a.slot].page = s.file[num + 1],
                                  !.s.pool[a.slot].pin_count = @ + 1]
    IN  IF page_hash(s, num) # 0 THEN hit(page_hash(s, num))
        ELSE read(alloc_page(s, num))

(* PageCache::release_page *)
release_page(s, slot) ==
    [s EXCEPT !.pool[slot].pin_count = @ - 1,
              !.lru = IF s.pool[slot].pin_count = 1
                      THEN lru_put(@, s.pool[slot].num, slot) ELSE @]

(* The page of a pinned frame, and its replacement marked dirty.           *)
page_of(s, slot) == s.pool[slot].page

with_write(s, slot, page, set_dirty) ==
    [s EXCEPT !.pool[slot].page = page,
              !.pool[slot].dirty = set_dirty]

(* ---- heap inserts (am/heap.rs) ---- *)
(* am/heap.rs tuple_size_limit *)
tuple_size_limit == PAGE_SIZE

(* The closure of Heap::insert_tuple on the page of a pinned frame:        *)
(* put_item, the insert log record with the offset put_item returned, the  *)
(* page LSN.  When put_item panics or fails, the buffer of the frame is    *)
(* left as the caller made it and nothing is logged.                       *)
insert_closure(s, slot, page, tup, xid) ==
    LET page_num == s.pool[slot].num
        logged(r, a) ==
            [outcome |-> "Ok",
             s |-> with_write([s EXCEPT !.wal = a.wal], slot,
                              [r.page EXCEPT !.lsn = a.end_pos], TRUE),
             ptr |-> <<page_num, r.offset>>]
        put(r) ==
            IF ~r.ok
            THEN [outcome |-> IF r.panic THEN "panic" ELSE "DataCorrupted",
                  s |-> with_write(s, slot, page, s.pool[slot].dirty),
                  ptr |-> <<0, 0>>]
            ELSE logged(r, append_raw(s.wal,
                       [kind |-> "HeapInsert", xid |-> xid, page_num |-> page_num,
                        offset |-> r.offset, id |-> tup.id,
                        len |-> tup.len - HeapTupleHeaderLen],
                       HeapInsertLogLen + tup.len - HeapTupleHeaderLen))
    IN  put(put_item(page, tup, 0))

(* Heap::with_page_for_tuple applied to that closure: the page of the      *)
(* last insert when the tuple fits, else a new page.  hint = -1 is None.   *)
(* A closure that fails or panics leaves the frame pinned.  On a page with *)
(* upper < lower get_free_space subtracts below 0 (outcome "underflow"):   *)
(* a panic in a build with overflow checks, else a huge free space, and    *)
(* then the DataCorrupted of put_item.                                     *)
insert_tuple(s, tup, xid) ==
    LET failed(outcome, s1) ==
            [ok |-> FALSE, outcome |-> outcome, s |-> s1, ptr |-> <<0, 0>>]
        on_new(n) ==
            LET done(c) ==
                    IF c.outcome # "Ok" THEN failed(c.outcome, c.s)
                    ELSE [ok |-> TRUE, outcome |-> "Ok", ptr |-> c.ptr,
                          s |-> [release_page(c.s, n.slot) EXCEPT !.hint = c.ptr[1]]]
            IN  IF ~n.ok THEN failed("OutOfMemory", n.s)
                ELSE done(insert_closure(n.s, n.slot,
                              init_item_page(page_of(n.s, n.slot)), tup, xid))
        on_hint(f, p0, p1) ==
            LET done(c) ==
                    IF c.outcome # "Ok" THEN failed(c.outcome, c.s)
                    ELSE [ok |-> TRUE, outcome |-> "Ok", ptr |-> c.ptr,
                          s |-> release_page(c.s, f.slot)]
            IN  IF p1.upper < p1.lower THEN failed("underflow", f.s)
                ELSE IF get_free_space(p1) >= tup.len
                THEN done(insert_closure(f.s, f.slot, p1, tup, xid))
                ELSE on_new(new_page(release_page(
                         with_write(f.s, f.slot, p1,
                                    f.s.pool[f.slot].dirty \/ is_new(p0)), f.slot)))
        fetched(f) ==
            LET inited(p0) ==
                    on_hint(f, p0, IF is_new(p0) THEN init_item_page(p0) ELSE p0)
            IN  IF ~f.ok THEN failed("OutOfMemory", s)
                ELSE inited(page_of(f.s, f.slot))
    IN  IF tup.len > tuple_size_limit THEN failed("ProgramLimitExceed", s)
        ELSE IF s.hint = -1 THEN on_new(new_page(s))
        ELSE fetched(fetch_page(s, s.hint))

(* ---- the transaction manager (concurrency/transaction_manager.rs) ---- *)
ReadCommitted == 1
RepeatableRead == 2

NoSnapshot == [min_xid |-> 0, max_xid |-> 0, xips |-> {}]

uses_transaction_snapshot(txn) == txn.isolation_level >= RepeatableRead

(* get_snapshot as it would be if every transaction kept its first         *)
(* snapshot: a later scan then misses what committed in between.           *)
get_snapshot_first(m, txn, xid) ==
    IF txn.has_snapshot THEN txn.current_snapshot
    ELSE record_snapshot(m.active_xids, m.latest_completed_xid, xid)

(* TransactionManager::get_snapshot: the snapshot the transaction uses now *)
get_snapshot(m, txn, xid) ==
    IF txn.has_snapshot /\ uses_transaction_snapshot(txn)
    THEN txn.current_snapshot
    ELSE record_snapshot(m.active_xids, m.latest_completed_xid, xid)

mark_transaction_end(m, xid) ==
    [m EXCEPT !.active_xids = @ \ {xid},
              !.latest_completed_xid = IF cmp(@, xid) < 0 THEN xid ELSE @]

advance_next_xid_past_never(m, xid) == m

(* advance_next_xid_past with the test xid > next_xid: the XID equal to    *)
(* the counter is handed out again                                         *)
advance_next_xid_past_above(m, xid) ==
    IF cmp(xid, m.next_xid) > 0 THEN [m EXCEPT !.next_xid = inc(xid)] ELSE m

advance_next_xid_past(m, xid) ==
    IF cmp(xid, m.next_xid) >= 0 THEN [m EXCEPT !.next_xid = inc(xid)] ELSE m

(* TransactionManager::init_state *)
init_state(m) == [m EXCEPT !.latest_completed_xid = dec(m.next_xid)]

(* ---- heap scans (am/heap.rs) ---- *)
(* A scan iterator it.  pc tells where its thread stands: "size" between   *)
(* the two reads of begin_scan, "call" between two calls of next, "loop"   *)
(* inside the page loop of get_next_tuple (holding the page latch),        *)
(* "done" after next returned None, "err" after next returned an error.    *)
(* slot = 0 is cur_page = None.  returned is what next has yielded.        *)
IdleScan ==
    [pc |-> "idle", dir |-> "Forward", heap_pages |-> 0, snapshot |-> NoSnapshot,
     inited |-> FALSE, slot |-> 0, cur_page_num |-> 0, num_tuples |-> 0,
     ptr |-> 0, offset |-> 0, remaining |-> 0, returned |-> <<>>,
     ended |-> {}, open |-> {}, earlier |-> {}, own |-> {}]

(* fetch_page as it would be if it counted one line pointer too few: the   *)
(* scan then never reaches the last tuple of a page.                       *)
iterator_fetch_page_short(it, s, page_num) ==
    LET fetched(s1, f, n) ==
            IF ~f.ok THEN [ok |-> FALSE, s |-> s1, it |-> [it EXCEPT !.slot = 0]]
            ELSE [ok |-> TRUE, s |-> f.s,
                  it |-> [it EXCEPT !.slot = f.slot, !.cur_page_num = page_num,
                                    !.num_tuples = IF n > 1 THEN n - 1 ELSE n]]
        released(s1) ==
            LET counted(f) == fetched(s1, f, num_line_pointers(page_of(f.s, f.slot)))
            IN  counted(fetch_page(s1, page_num))
    IN  released(IF it.slot # 0 THEN release_page(s, it.slot) ELSE s)

(* HeapScanIterator::fetch_page *)
iterator_fetch_page(it, s, page_num) ==
    LET fetched(s1, f) ==
            IF ~f.ok THEN [ok |-> FALSE, s |-> s1, it |-> [it EXCEPT !.slot = 0]]
            ELSE [ok |-> TRUE, s |-> f.s,
                  it |-> [it EXCEPT !.slot = f.slot, !.cur_page_num = page_num,
                             !.num_tuples = num_line_pointers(page_of(f.s, f.slot))]]
        released(s1) == fetched(s1, fetch_page(s1, page_num))
    IN  released(IF it.slot # 0 THEN release_page(s, it.slot) ELSE s)

(* The head of get_next_tuple: where a call of next(dir) starts looking.   *)
(* stop says that the call returns at once (empty heap, or error).         *)
start_call(it, s, dir) ==
    LET n == num_line_pointers(page_of(s, it.slot))
        first(f) ==
            IF ~f.ok
            THEN [stop |-> TRUE, s |-> f.s, it |-> [f.it EXCEPT !.pc = "err", !.dir = dir]]
            ELSE [stop |-> FALSE, s |-> f.s,
                  it |-> [f.it EXCEPT !.inited = TRUE, !.dir = dir,
                             !.remaining = f.it.num_tuples,
                             !.offset = IF dir = "Forward" \/ f.it.num_tuples = 0
                                        THEN 1 ELSE f.it.num_tuples]]
    IN  IF ~it.inited /\ it.heap_pages = 0
        THEN [stop |-> TRUE, s |-> s, it |-> [it EXCEPT !.pc = "done", !.dir = dir]]
        ELSE IF ~it.inited
        THEN first(iterator_fetch_page(it, s, IF dir = "Forward" THEN 0
                                              ELSE it.heap_pages - 1))
        ELSE IF dir = "Forward"
        THEN [stop |-> FALSE, s |-> s,
              it |-> [it EXCEPT !.offset = it.ptr + 1, !.remaining = n - it.ptr]]
        ELSE [stop |-> FALSE, s |-> s,
              it |-> [it EXCEPT !.offset = it.ptr - 1, !.remaining = it.ptr - 1]]

(* One turn of the loop of get_next_tuple: one tuple examined (its hint    *)
(* bits installed), or the move to the next page, or the end of the scan.  *)
loop_turn(it, s, table, xid) ==
    LET step == IF it.dir = "Forward" THEN 1 ELSE -1
        next_page == IF it.dir = "Forward"
                     THEN (IF it.cur_page_num + 1 >= it.heap_pages THEN 0
                           ELSE it.cur_page_num + 1)
                     ELSE (IF it.cur_page_num > 0 THEN it.cur_page_num
                           ELSE it.heap_pages) - 1
        finished == IF it.dir = "Forward" THEN next_page = 0
                    ELSE it.cur_page_num = 0
        examined(page, htup, v) ==
            LET s1 == IF v.new_flags # {}
                      THEN with_write(s, it.slot,
                               [page EXCEPT !.items[it.offset].flags = @ \cup v.new_flags],
                               TRUE)
                      ELSE s
            IN  IF v.valid
                THEN [s |-> s1,
                      it |-> [it EXCEPT !.pc = "call", !.ptr = it.offset,
                                 !.returned = Append(@, [page |-> it.cur_page_num,
                                     off |-> it.offset, id |-> htup.id,
                                     len |-> htup.len, min_xid |-> htup.min_xid,
                                     status |-> table[htup.min_xid]])]]
                ELSE [s |-> s1, it |-> [it EXCEPT !.pc = "loop", !.remaining = @ - 1,
                                                  !.offset = @ + step]]
        on_page(page) ==
            examined(page, page.items[it.offset],
                     is_visible(page.items[it.offset], table, it.snapshot, xid))
        moved(f) ==
            IF ~f.ok THEN [s |-> f.s, it |-> [f.it EXCEPT !.pc = "err"]]
            ELSE [s |-> f.s,
                  it |-> [f.it EXCEPT !.pc = "loop", !.remaining = f.it.num_tuples,
                             !.offset = IF it.dir = "Forward" THEN 1
                                        ELSE f.it.num_tuples]]
    IN  IF it.remaining > 0 THEN on_page(page_of(s, it.slot))
        ELSE IF finished
        THEN [s |-> release_page(s, it.slot),
              it |-> [it EXCEPT !.pc = "done", !.slot = 0, !.inited = FALSE]]
        ELSE moved(iterator_fetch_page(it, s, next_page))

(* ---- the state ---- *)
VARIABLES
    store,   \* buffer pool, LRU list, relation file, log, insert hint
    tm,      \* transaction manager: next XID, active set, status table
    txns,    \* the Transaction object of every XID, and where its thread is
    scans,   \* the scan iterator of every transaction
    proc,    \* "running", "down" (killed) or "failed" (DB::open returned Err)
    master,  \* the master record file
    ckpt,    \* the checkpoint under way, if any
    hist,    \* history: the tuples inserted, the scans begun, the crashes
    index,   \* the pages of the B-tree index
    ops,     \* the index operation each thread is in, and the latches it holds
    unit     \* the object under test in the runs of one component

vars == <<store, tm, txns, scans, proc, master, ckpt, hist, index, ops, unit>>

XIDs == 1..MaxXid

InitStore ==
    [pool |-> <<>>, page_hash |-> <<>>, lru |-> <<>>, file |-> <<>>, hint |-> -1,
     cache_capacity |-> CacheCapacity,
     wal |-> [seg |-> NewSegment(1), closed |-> <<>>],
     written |-> [lsn |-> 0, flushed |-> 0, ok |-> TRUE]]

(* TransactionManager::open *)
OpenTm ==
    [next_xid |-> inc(0), active_xids |-> {}, latest_completed_xid |-> 0,
     table |-> [x \in 0..MaxXid |-> "InProgress"]]

NoTxn ==
    [state |-> "none", level |-> ReadCommitted, isolation_level |-> ReadCommitted,
     has_snapshot |-> FALSE, current_snapshot |-> NoSnapshot, first |-> {}]

NoCkpt ==
    [on |-> FALSE, redo_lsn |-> 0, next_xid |-> 0, pages |-> <<>>,
     logged |-> FALSE, checkpoint |-> 0]

(* Index::build_empty: the index file holds the meta page, with no root    *)
InitIndex == <<[lsn |-> 0, root |-> 0]>>

(* A thread that is in no index operation: it holds no latch (held) and    *)
(* waits for none (want = -1).                                             *)
IdleOp ==
    [op |-> "none", pc |-> "idle", want |-> -1, held |-> {}, key |-> 0,
     tuple |-> [key |-> 0, ptr |-> <<0, 0>>, len |-> 0], offset |-> 0,
     page |-> -1, path |-> <<>>, left |-> 0, right |-> 0, is_root |-> FALSE,
     next_page |-> 0, items |-> <<>>, item_index |-> 0,
     snapshot |-> NoSnapshot, returned |-> <<>>, before |-> {}, ended |-> {},
     buffer |-> ZeroPage, root |-> 0, start_key |-> -1, pred |-> -1, err |-> "",
     placed |-> [page |-> -1, covered |-> TRUE]]

NoUnit == [kind |-> "none"]

(* The state after construction; unit is the object a component run is   *)
(* about (none in the runs of the whole database)                          *)
InitWith(u, idx, s) ==
    /\ index = idx
    /\ ops = [x \in XIDs |-> IdleOp]
    /\ unit = u
    /\ store = s
    /\ tm = init_state(OpenTm)
    /\ txns = [x \in XIDs |-> NoTxn]
    /\ scans = [x \in XIDs |-> IdleScan]
    /\ proc = "running"
    /\ master = [db_state |-> "InProduction", last_checkpoint_pos |-> 0]
    /\ ckpt = NoCkpt
    /\ hist = [tuples |-> <<>>, nscans |-> 0, crashes |-> 0, ckpts |-> 0,
               stale |-> {}, lost |-> {}, kept |-> {}, in_checkpoint |-> FALSE]

InitUnit(u) == InitWith(u, InitIndex, InitStore)

Init == InitUnit(NoUnit)

(* The page latch: a scan inside its page loop holds the latch of its page *)
latched(page_num, x) ==
    \E y \in XIDs : y # x /\ scans[y].pc = "loop" /\ scans[y].slot # 0
                    /\ scans[y].cur_page_num = page_num

scanning(x) == scans[x].pc \in {"size", "call", "loop"}

(* ---- transactions ---- *)
(* TransactionManager::start_transaction, first half: get_next_xid *)
AllocXid(x, level) ==
    /\ proc = "running" /\ x = tm.next_xid /\ x <= MaxXid
    /\ txns[x].state = "none"
    /\ tm' = [tm EXCEPT !.next_xid = inc(@)]
    /\ txns' = [txns EXCEPT ![x] = [NoTxn EXCEPT !.state = "allocated",
                                                 !.level = level]]
    /\ UNCHANGED <<store, scans, proc, master, ckpt, hist, index, ops, unit>>

(* second half: the XID enters the active set; the Transaction is built    *)
RegisterXid(x) ==
    /\ proc = "running" /\ txns[x].state = "allocated"
    /\ tm' = [tm EXCEPT !.active_xids = @ \cup {x}]
    /\ txns' = [txns EXCEPT ![x].state = "active",
                            ![x].isolation_level = ReadCommitted]
    /\ UNCHANGED <<store, scans, proc, master, ckpt, hist, index, ops, unit>>

(* Heap::insert_tuple of a tuple of len bytes *)
Insert(x, len) ==
    /\ proc = "running" /\ txns[x].state = "active" /\ ~scanning(x)
    /\ Len(hist.tuples) < MaxTuples
    /\ store.hint = -1 \/ ~latched(store.hint, x)
    /\ LET returned(r) ==
               /\ Len(r.s.file) <= MaxPages
               /\ store' = r.s
               /\ hist' = IF r.ok
                          THEN [hist EXCEPT !.tuples = Append(@,
                                   [xid |-> x, page |-> r.ptr[1], off |-> r.ptr[2],
                                    len |-> HeapTupleHeaderLen + len,
                                    epoch |-> hist.crashes])]
                          ELSE hist
       IN  returned(insert_tuple(store,
                        prepare_heap_tuple_for_insert(Len(hist.tuples) + 1, len, x), x))
    /\ UNCHANGED <<tm, txns, scans, proc, master, ckpt, index, ops, unit>>

(* TransactionManager::commit_transaction up to the status update *)
CommitLog(x) ==
    /\ proc = "running" /\ txns[x].state = "active" /\ ~scanning(x)
    /\ LET appended(a) == store' = [store EXCEPT !.wal = wal_flush(a.wal, a.end_pos)]
       IN  appended(append_raw(store.wal, [kind |-> "Commit", xid |-> x],
                               CommitLogLen))
    /\ tm' = [tm EXCEPT !.table[x] = "Committed"]
    /\ txns' = [txns EXCEPT ![x].state = "logged"]
    /\ UNCHANGED <<scans, proc, master, ckpt, hist, index, ops, unit>>

(* ... and its end: mark_transaction_end, after which it returns *)
CommitEnd(x) ==
    /\ proc = "running" /\ txns[x].state = "logged"
    /\ tm' = mark_transaction_end(tm, x)
    /\ txns' = [txns EXCEPT ![x].state = "ended"]
    /\ UNCHANGED <<store, scans, proc, master, ckpt, hist, index, ops, unit>>

(* ---- scans ---- *)
TuplesOf(x) == {i \in 1..Len(hist.tuples) : hist.tuples[i].xid = x}

Ids(returned) == {returned[i].id : i \in 1..Len(returned)}

Entries(x) == {scans[x].returned[i] : i \in 1..Len(scans[x].returned)}

(* Heap::begin_scan, first read: the size of the heap in pages.  The       *)
(* iterator also remembers, for the record, whose commit had returned and  *)
(* who had uncommitted tuples when begin_scan was called, whose tuples the *)
(* previous scan of this transaction ran over without yielding any, and    *)
(* which tuples the scanner itself had inserted.                           *)
BeginScanSize(x) ==
    /\ proc = "running" /\ txns[x].state = "active" /\ ~scanning(x)
    /\ hist.nscans < MaxScans
    /\ scans' = [scans EXCEPT ![x] = [IdleScan EXCEPT
           !.pc = "size", !.heap_pages = Len(store.file),
           !.ended = {a \in XIDs : txns[a].state = "ended"},
           !.own = TuplesOf(x),
           !.open = {a \in XIDs \ {x} : txns[a].state \in {"active", "logged"}
                                        /\ TuplesOf(a) # {}},
           !.earlier = IF scans[x].pc = "done"
                       THEN {a \in scans[x].open :
                               Ids(scans[x].returned) \cap TuplesOf(a) = {}}
                       ELSE {}]]
    /\ hist' = [hist EXCEPT !.nscans = @ + 1]
    /\ UNCHANGED <<store, tm, txns, proc, master, ckpt, index, ops, unit>>

(* Heap::begin_scan, second read: the snapshot *)
BeginScanSnapshot(x) ==
    /\ proc = "running" /\ scans[x].pc = "size"
    /\ LET snapshot == get_snapshot(tm, txns[x], x)
       IN  /\ scans' = [scans EXCEPT ![x].pc = "call", ![x].snapshot = snapshot]
           /\ txns' = [txns EXCEPT
                  ![x].has_snapshot = TRUE, ![x].current_snapshot = snapshot,
                  ![x].first = IF txns[x].has_snapshot THEN @
                               ELSE {a \in XIDs : tm.table[a] = "Committed"}]
    /\ UNCHANGED <<store, tm, proc, master, ckpt, hist, index, ops, unit>>

(* TableScanIterator::next: a call of next(dir) starts when pc = "call";   *)
(* every step is one turn of the loop of get_next_tuple.                   *)
scan_step(it, s, table, xid, dir) ==
    LET started(c) == IF c.stop THEN [s |-> c.s, it |-> c.it]
                      ELSE loop_turn(c.it, c.s, table, xid)
    IN  IF it.pc = "call" THEN started(start_call(it, s, dir))
        ELSE loop_turn(it, s, table, xid)

ScanStep(x, dir) ==
    /\ proc = "running" /\ scans[x].pc \in {"call", "loop"}
    /\ scans[x].inited \/ scans[x].pc = "loop" => dir = scans[x].dir
    /\ scans[x].slot # 0 => ~latched(scans[x].cur_page_num, x)
    /\ LET stepped(r) ==
               /\ r.it.pc = "loop" => ~latched(r.it.cur_page_num, x)
               /\ scans' = [scans EXCEPT ![x] = r.it]
               /\ store' = r.s
       IN  stepped(scan_step(scans[x], store, tm.table, x, dir))
    /\ UNCHANGED <<tm, txns, proc, master, ckpt, hist, index, ops, unit>>

Levels == {ReadCommitted, RepeatableRead}

TupleLens == {SmallLen, LargeLen}

Directions == {"Forward", "Backward"}

Next ==
    \/ \E x \in XIDs, level \in Levels : AllocXid(x, level)
    \/ \E x \in XIDs : RegisterXid(x)
    \/ \E x \in XIDs, len \in TupleLens : Insert(x, len)
    \/ \E x \in XIDs : CommitLog(x)
    \/ \E x \in XIDs : CommitEnd(x)
    \/ \E x \in XIDs : BeginScanSize(x)
    \/ \E x \in XIDs : BeginScanSnapshot(x)
    \/ \E x \in XIDs, dir \in Directions : ScanStep(x, dir)

Spec == Init /\ [][Next]_vars
(* ---- checkpoints (wal/checkpoint_manager.rs) ---- *)
(* PageCache::get_dirty_pages: every dirty frame is pinned *)
RECURSIVE get_dirty_pages(_, _)
get_dirty_pages(s, slot) ==
    LET rest(r) == [s |-> r.s, pages |-> <<slot>> \o r.pages]
    IN  IF slot > Len(s.pool) THEN [s |-> s, pages |-> <<>>]
        ELSE IF ~s.pool[slot].dirty THEN get_dirty_pages(s, slot + 1)
        ELSE rest(get_dirty_pages(
                      [s EXCEPT !.pool[slot].pin_count = @ + 1,
                                !.lru = IF s.pool[slot].pin_count = 0
                                        THEN lru_pop(@, s.pool[slot].num) ELSE @],
                      slot + 1))

(* create_checkpoint up to the first half of sync_pages: the redo point,   *)
(* the next XID, the dirty frames.                                         *)
CkptBegin ==
    /\ proc = "running" /\ ~ckpt.on /\ hist.ckpts < MaxCheckpoints
    /\ ~\E y \in XIDs : scans[y].pc = "loop" /\ scans[y].slot # 0
    /\ LET pinned(d) ==
               /\ store' = d.s
               /\ ckpt' = [NoCkpt EXCEPT !.on = TRUE,
                                         !.redo_lsn = current_lsn(store.wal.seg),
                                         !.next_xid = tm.next_xid,
                                         !.pages = d.pages]
       IN  pinned(get_dirty_pages(store, 1))
    /\ hist' = [hist EXCEPT !.ckpts = @ + 1]
    /\ UNCHANGED <<tm, txns, scans, proc, master, index, ops, unit>>

(* sync_pages, one turn of its loop: flush_page and release_page *)
CkptFlush ==
    /\ proc = "running" /\ ckpt.on /\ ckpt.pages # <<>> /\ ~ckpt.logged
    /\ LET slot == Head(ckpt.pages)
       IN  /\ ~latched(store.pool[slot].num, 0)
           /\ store' = release_page(cache_flush_page(store, slot), slot)
    /\ ckpt' = [ckpt EXCEPT !.pages = Tail(@)]
    /\ UNCHANGED <<tm, txns, scans, proc, master, hist, index, ops, unit>>

(* create_checkpoint after sync_pages: the checkpoint record is appended   *)
(* and the log flushed to its end                                          *)
CkptEnd ==
    /\ proc = "running" /\ ckpt.on /\ ckpt.pages = <<>> /\ ~ckpt.logged
    /\ LET appended(a) ==
               /\ store' = [store EXCEPT !.wal = wal_flush(a.wal, a.end_pos)]
               /\ ckpt' = [ckpt EXCEPT !.logged = TRUE, !.checkpoint = a.start_pos]
       IN  appended(append_raw(store.wal,
                        [kind |-> "Checkpoint", xid |-> 0,
                         redo_pos |-> ckpt.redo_lsn, next_xid |-> ckpt.next_xid],
                        CheckpointLogLen))
    /\ UNCHANGED <<tm, txns, scans, proc, master, hist, index, ops, unit>>

(* the end of create_checkpoint: write_master_record with the position of  *)
(* the checkpoint record                                                   *)
CkptMaster ==
    /\ proc = "running" /\ ckpt.on /\ ckpt.logged
    /\ master' = [master EXCEPT !.last_checkpoint_pos = ckpt.checkpoint]
    /\ ckpt' = NoCkpt
    /\ hist' = [hist EXCEPT !.stale = {x \in XIDs : txns[x].state = "ended"}]
    /\ UNCHANGED <<store, tm, txns, scans, proc, index, ops, unit>>

(* ---- crash and restart (db.rs) ---- *)
(* The process is killed: what is in memory is lost, the files stay.  The  *)
(* history notes the tuples of the transactions whose commit had returned  *)
(* with no checkpoint completed since (kept) and the tuples of those that  *)
(* had not committed (lost).                                               *)
Crash ==
    /\ proc = "running" /\ hist.crashes < MaxCrashes
    /\ proc' = "down"
    /\ store' = [store EXCEPT
           !.pool = <<>>, !.page_hash = <<>>, !.lru = <<>>, !.hint = -1,
           !.wal.seg.chunks = {c \in @ : c.off + RECORD_HEADER_SIZE + c.len
                                            <= store.wal.seg.size}]
    /\ tm' = OpenTm
    /\ txns' = [x \in XIDs |-> NoTxn]
    /\ scans' = [x \in XIDs |-> IdleScan]
    /\ ckpt' = NoCkpt
    /\ hist' = [hist EXCEPT
           !.crashes = @ + 1, !.stale = {}, !.in_checkpoint = ckpt.on,
           !.kept = @ \cup {i \in 1..Len(hist.tuples) :
                              /\ hist.tuples[i].epoch = hist.crashes
                              /\ txns[hist.tuples[i].xid].state = "ended"
                              /\ hist.tuples[i].xid \notin hist.stale},
           !.lost = @ \cup {i \in 1..Len(hist.tuples) :
                              /\ hist.tuples[i].epoch = hist.crashes
                              /\ txns[hist.tuples[i].xid].state = "active"}]
    /\ UNCHANGED <<master, index, ops, unit>>

(* Segment::open on the last segment file: refused when the file is       *)
(* longer than the capacity, else padded with zeros to a page boundary.    *)
segment_open(seg) ==
    LET padding == IF seg.size % SEGMENT_PAGE_SIZE # 0
                   THEN SEGMENT_PAGE_SIZE - (seg.size % SEGMENT_PAGE_SIZE) ELSE 0
    IN  [ok |-> seg.size <= Capacity,
         seg |-> [seg EXCEPT !.size = @ + padding, !.page_start = seg.size + padding,
                             !.page_allocated = 0, !.page_flushed = 0]]

wal_files(wal) == wal.closed \o <<SegFile(wal.seg)>>

(* HeapInsertLog::apply *)
heap_insert_apply(s, rec, lsn) ==
    LET put(f, p1, r) ==
            IF ~r.ok
            THEN [ok |-> FALSE, s |-> with_write(f.s, f.slot, p1, f.s.pool[f.slot].dirty)]
            ELSE [ok |-> TRUE,
                  s |-> release_page(with_write(f.s, f.slot,
                                         [r.page EXCEPT !.lsn = lsn], TRUE), f.slot)]
        inited(f, p1) ==
            put(f, p1, put_tuple(p1, HeapTuple(rec.id, rec.len, rec.xid, {}),
                                 rec.offset))
        latched_page(f, p0) ==
            IF p0.lsn >= lsn THEN [ok |-> TRUE, s |-> release_page(f.s, f.slot)]
            ELSE inited(f, IF is_new(p0) THEN init_item_page(p0) ELSE p0)
        fetched(f) ==
            IF ~f.ok THEN [ok |-> FALSE, s |-> s]
            ELSE latched_page(f, page_of(f.s, f.slot))
    IN  IF rec.page_num >= Len(s.file) THEN [ok |-> FALSE, s |-> s]
        ELSE fetched(fetch_page(s, rec.page_num))

(* TransactionManager::redo_commit *)
redo_commit(s, m, xid, lsn) ==
    [s |-> [s EXCEPT !.wal = wal_flush(@, lsn)],
     m |-> [m EXCEPT !.table[xid] = "Committed"]]

(* LogRecord::apply: the record is handed to the component that wrote it   *)
apply(s, m, rec, lsn) ==
    LET heap(h) == [ok |-> h.ok, s |-> h.s, m |-> m]
        txn(c) == [ok |-> TRUE, s |-> c.s, m |-> c.m]
    IN  IF rec.kind = "HeapInsert" THEN heap(heap_insert_apply(s, rec, lsn))
        ELSE IF rec.kind = "Commit" THEN txn(redo_commit(s, m, rec.xid, lsn))
        ELSE [ok |-> TRUE, s |-> s, m |-> m]

(* Wal::read_checkpoint_record *)
read_checkpoint_record(files, pos) ==
    LET found(r) ==
            IF r.tag # "rec" THEN [ok |-> FALSE, some |-> FALSE]
            ELSE IF r.rec.kind # "Checkpoint" THEN [ok |-> FALSE, some |-> FALSE]
            ELSE [ok |-> TRUE, some |-> TRUE, log |-> r.rec]
    IN  IF pos = 0 THEN [ok |-> TRUE, some |-> FALSE]
        ELSE found(reader_read_record(files, pos))

(* Wal::replay_logs: the redo loop over the records from pos on; the next  *)
(* XID is moved past the XID of every record read.                         *)
RECURSIVE replay_logs(_, _, _, _)
replay_logs(s, m, files, pos) ==
    LET applied(r, a) ==
            IF ~a.ok THEN [ok |-> FALSE, s |-> a.s, m |-> a.m]
            ELSE replay_logs(a.s, a.m, files, r.pos)
        read(r) ==
            IF r.tag = "none" THEN [ok |-> TRUE, s |-> s, m |-> m]
            ELSE IF r.tag = "err" THEN [ok |-> FALSE, s |-> s, m |-> m]
            ELSE applied(r, apply(s, advance_next_xid_past(m, r.rec.xid),
                                  r.rec, r.pos))
    IN  read(reader_read_record(files, pos))

(* DB::startup on the files a store s holds *)
startup(s, mr) ==
    LET replayed(r) ==
            IF ~r.ok
            THEN [ok |-> FALSE, s |-> r.s, m |-> r.m,
                  mr |-> [mr EXCEPT !.db_state = "InCrashRecovery"]]
            ELSE [ok |-> TRUE, s |-> r.s, m |-> init_state(r.m),
                  mr |-> [mr EXCEPT !.db_state = "InProduction"]]
        located(files, redo_pos, m0, cur) ==
            IF cur < redo_pos THEN [ok |-> FALSE, s |-> s, m |-> m0, mr |-> mr]
            ELSE IF cur > redo_pos \/ mr.db_state # "Shutdowned"
            THEN replayed(replay_logs(s, m0, files, redo_pos))
            ELSE replayed([ok |-> TRUE, s |-> s, m |-> m0])
        checkpoint(files, c) ==
            IF ~c.ok THEN [ok |-> FALSE, s |-> s, m |-> OpenTm, mr |-> mr]
            ELSE IF c.some
            THEN located(files, c.log.redo_pos,
                         [OpenTm EXCEPT !.next_xid = c.log.next_xid],
                         current_lsn(s.wal.seg))
            ELSE located(files, 0, OpenTm, current_lsn(s.wal.seg))
        opened(files) ==
            checkpoint(files, read_checkpoint_record(files, mr.last_checkpoint_pos))
    IN  opened(wal_files(s.wal))

(* DB::open after a kill: Wal::open, then startup.  When it returns an     *)
(* error the database stays closed.                                        *)
Startup ==
    /\ proc = "down"
    /\ LET started(r) ==
               /\ proc' = IF r.ok THEN "running" ELSE "failed"
               /\ store' = r.s
               /\ tm' = r.m
               /\ master' = r.mr
           opened(o) ==
               IF ~o.ok
               THEN /\ proc' = "failed"
                    /\ UNCHANGED <<store, tm, master>>
               ELSE started(startup([store EXCEPT !.wal.seg = o.seg], master))
       IN  opened(segment_open(store.wal.seg))
    /\ UNCHANGED <<txns, scans, ckpt, hist, index, ops, unit>>

(* A scan from begin_scan to the None of next, with no other thread in    *)
(* between.                                                                *)
RECURSIVE scan_to_end(_, _, _, _, _)
scan_to_end(it, s, table, xid, dir) ==
    LET stepped(r) == scan_to_end(r.it, r.s, table, xid, dir)
    IN  IF it.pc \in {"done", "err"} THEN [s |-> s, it |-> it]
        ELSE stepped(scan_step(it, s, table, xid, dir))

Scan(x, dir) ==
    /\ proc = "running" /\ txns[x].state = "active" /\ ~scanning(x)
    /\ hist.nscans < MaxScans
    /\ LET ended(r) == scans' = [scans EXCEPT ![x] = r.it] /\ store' = r.s
           begun(snapshot) ==
               /\ ended(scan_to_end(
                      [IdleScan EXCEPT !.pc = "call", !.heap_pages = Len(store.file),
                                       !.snapshot = snapshot, !.own = TuplesOf(x)],
                      store, tm.table, x, dir))
               /\ txns' = [txns EXCEPT ![x].has_snapshot = TRUE,
                                       ![x].current_snapshot = snapshot]
       IN  begun(get_snapshot(tm, txns[x], x))
    /\ hist' = [hist EXCEPT !.nscans = @ + 1]
    /\ UNCHANGED <<tm, proc, master, ckpt, index, ops, unit>>

(* In the recovery runs one client works at a time: a transaction starts  *)
(* when no other is under way.                                             *)
NoneUnderWay == \A y \in XIDs : txns[y].state \in {"none", "ended"}

AllocXidAlone(x) == NoneUnderWay /\ AllocXid(x, ReadCommitted)

NextRecovery ==
    \/ \E x \in XIDs : AllocXidAlone(x)
    \/ \E x \in XIDs : RegisterXid(x)
    \/ \E x \in XIDs, len \in TupleLens : Insert(x, len)
    \/ \E x \in XIDs : CommitLog(x)
    \/ \E x \in XIDs : CommitEnd(x)
    \/ \E x \in XIDs : Scan(x, "Forward")
    \/ CkptBegin
    \/ CkptFlush
    \/ CkptEnd
    \/ CkptMaster
    \/ Crash
    \/ Startup

SpecRecovery == Init /\ [][NextRecovery]_vars

(* ---- durability (SpecRecovery) ---- *)

(* C1: the tuples of a transaction whose commit_transaction returned       *)
(* before a crash, with no checkpoint completed since, are returned by the *)
(* scans of the transactions started after the restart: the restart        *)
(* succeeds, and every finished scan has them with the length inserted.    *)
C1_CommittedSurviveCrash ==
    /\ hist.kept # {} => proc # "failed"
    /\ \A x \in XIDs :
           proc = "running" /\ scans[x].pc = "done"
           => \A i \in hist.kept :
                  \E e \in Entries(x) : e.id = i /\ e.len = hist.tuples[i].len

C3_WalBeforeData ==
    store.written.ok /\ store.written.lsn <= store.written.flushed

(* A page with an LSN in the second log segment has been written.          *)
C3_Witness == store.written.lsn > Capacity

(* ---- isolation in normal operation (Spec) ---- *)

(* C4: no dirty reads.  Every tuple a scan has yielded was inserted by the *)
(* scanner itself or by a transaction whose status was Committed at the    *)
(* moment the tuple was returned.                                          *)
C4_NoDirtyReads ==
    \A x \in XIDs : \A e \in Entries(x) :
        e.min_xid = x \/ e.status = "Committed"

(* A finished scan ran over the tuples of another transaction that had not *)
(* committed when the scan began, and yielded none of them.                *)
C4_Witness ==
    \E x \in XIDs, a \in XIDs :
        /\ scans[x].pc = "done" /\ a \in scans[x].open
        /\ \E i \in TuplesOf(a) : hist.tuples[i].page < scans[x].heap_pages
        /\ Ids(scans[x].returned) \cap TuplesOf(a) = {}

(* C5: a ReadCommitted transaction B that begins a scan after              *)
(* commit_transaction(A) has returned gets every tuple A inserted.         *)
C5_ReadCommittedSeesCommitted ==
    \A x \in XIDs :
        scans[x].pc = "done" /\ txns[x].level = ReadCommitted
        => \A a \in scans[x].ended : TuplesOf(a) \subseteq Ids(scans[x].returned)

(* ... and B's earlier scan, made while A was uncommitted, yielded none.   *)
C5_Witness ==
    \E x \in XIDs, a \in XIDs :
        /\ scans[x].pc = "done" /\ txns[x].level = ReadCommitted
        /\ a \in scans[x].ended \cap scans[x].earlier
        /\ TuplesOf(a) # {}
        /\ TuplesOf(a) \subseteq Ids(scans[x].returned)

(* C6: a transaction B started as RepeatableRead is never given a tuple of *)
(* a transaction A that had not committed when B's first snapshot was      *)
(* taken, also after A commits.                                            *)
C6_RepeatableRead ==
    \A x \in XIDs :
        txns[x].level >= RepeatableRead
        => \A e \in Entries(x) : e.min_xid = x \/ e.min_xid \in txns[x].first

(* C7: commit atomicity.  A finished scan has yielded all the tuples of    *)
(* another transaction A or none of them.                                  *)
C7_CommitAtomicity ==
    \A x \in XIDs : \A a \in XIDs \ {x} :
        scans[x].pc = "done"
        => \/ Ids(scans[x].returned) \cap TuplesOf(a) = {}
           \/ TuplesOf(a) \subseteq Ids(scans[x].returned)

(* The tuples a scan has yielded out of those the scanner had inserted     *)
OwnReturned(x) == SelectSeq(scans[x].returned, LAMBDA e : e.min_xid = x)

Before(e, f) == e.page < f.page \/ (e.page = f.page /\ e.off < f.off)

(* C8: a scan by the inserting transaction, called until None, yields      *)
(* exactly its n tuples, each once, with the bytes inserted, in increasing *)
(* (page, offset) order when Forward and in decreasing order when Backward.*)
C8_ScanYieldsOwnTuples ==
    \A x \in XIDs :
        scans[x].pc = "done" =>
            LET r == OwnReturned(x)
            IN  /\ Len(r) = Cardinality(scans[x].own)
                /\ {r[i].id : i \in 1..Len(r)} = scans[x].own
                /\ \A i \in 1..Len(r) :
                       /\ r[i].page = hist.tuples[r[i].id].page
                       /\ r[i].off = hist.tuples[r[i].id].off
                       /\ r[i].len = hist.tuples[r[i].id].len
                /\ \A i \in 1..(Len(r) - 1) :
                       IF scans[x].dir = "Forward" THEN Before(r[i], r[i + 1])
                       ELSE Before(r[i + 1], r[i])

(* A finished Backward scan of the scanner's tuples, lying on two pages.    *)
C8_Witness ==
    \E x \in XIDs :
        /\ scans[x].pc = "done" /\ scans[x].dir = "Backward"
        /\ Cardinality(scans[x].own) >= 2
        /\ \E i, j \in scans[x].own : hist.tuples[i].page # hist.tuples[j].page
        /\ Len(OwnReturned(x)) >= 2

(* ==== the B-tree index (am/btree.rs, am/btree/btree_page.rs) ==== *)
MaxKey == 1
MaxRows == 11
MaxOtherRows == 1
KeyLen == 2000

BTREE_P_PAYLOAD == 24
BTREE_META_PAGE_NUM == 0
IndexTupleHeaderLen == 24
BTreeInsertLogLen == 46
BTreeNewRootLogLen == 58

(* the length of the item payload of a B-tree data page *)
BTreePayloadLen == PAGE_SIZE - P_PAYLOAD - BTREE_P_PAYLOAD

(* BTreeDataPageViewMut::init_page: the B-tree header and the item payload *)
(* are cleared, the page LSN stays.                                        *)
btree_init_page(p) ==
    [lsn |-> p.lsn, prev |-> 0, next |-> 0, level |-> 0, flags |-> {},
     lower |-> P_POINTERS, upper |-> BTreePayloadLen, items |-> <<>>]

page_type(p) == IF "IS_LEAF" \in p.flags THEN "Leaf" ELSE "Internal"

is_root(p) == "IS_ROOT" \in p.flags

is_rightmost(p) == p.next = 0

high_key_offset == 1

first_key_offset(p) == high_key_offset + (IF is_rightmost(p) THEN 0 ELSE 1)

(* An index tuple: the key, of klen bytes, and the item pointer (page,      *)
(* offset); len is the length of its serialized form.                      *)
IndexTuple(key, klen, ptr) ==
    [key |-> key, ptr |-> ptr, len |-> IndexTupleHeaderLen + klen]

get_downlink(tuple) == tuple.ptr[1]

set_downlink(tuple, page_num) == [tuple EXCEPT !.ptr = <<page_num, @[2]>>]

(* the comparator of the index: the order of the keys as numbers *)
key_comparator(a, b) == IF a < b THEN -1 ELSE IF a = b THEN 0 ELSE 1

(* Ord for ItemPointer: page_num, then offset *)
item_pointer_cmp(p, q) ==
    IF p[1] # q[1] THEN (IF p[1] < q[1] THEN -1 ELSE 1)
    ELSE IF p[2] # q[2] THEN (IF p[2] < q[2] THEN -1 ELSE 1)
    ELSE 0

(* compare_key without the rule that the first key of an internal page is *)
(* below every key                                                         *)
compare_key_plain(p, key, item_ptr, offset) ==
    IF key_comparator(key, p.items[offset].key) = 0
    THEN item_pointer_cmp(item_ptr, p.items[offset].ptr)
    ELSE key_comparator(key, p.items[offset].key)

(* BTree::compare_key *)
compare_key(p, key, item_ptr, offset) ==
    IF page_type(p) = "Internal" /\ offset = first_key_offset(p) THEN 1
    ELSE IF key_comparator(key, p.items[offset].key) = 0
    THEN item_pointer_cmp(item_ptr, p.items[offset].ptr)
    ELSE key_comparator(key, p.items[offset].key)

(* the loop of binary_search_page *)
RECURSIVE binary_search_loop(_, _, _, _, _, _)
binary_search_loop(p, key, item_ptr, cond, low, high) ==
    LET mid == low + (high - low) \div 2
    IN  IF low >= high THEN low
        ELSE IF compare_key(p, key, item_ptr, mid) >= cond
        THEN binary_search_loop(p, key, item_ptr, cond, mid + 1, high)
        ELSE binary_search_loop(p, key, item_ptr, cond, low, mid)

(* a search that always answers the first key of the page *)
binary_search_page_first(p, key, item_ptr, next_key) == first_key_offset(p)

(* BTree::binary_search_page *)
binary_search_page(p, key, item_ptr, next_key) ==
    LET low == first_key_offset(p)
        high == num_line_pointers(p) + 1
        found(l) == IF page_type(p) = "Leaf" THEN l ELSE l - 1
    IN  IF low > high THEN low
        ELSE found(binary_search_loop(p, key, item_ptr,
                                      IF next_key THEN 0 ELSE 1, low, high))

get_split_location(p) == num_line_pointers(p) \div 2 + 1

(* get_tree_page_write(None): the page new_page gives, initialized *)
BTreeNewPage == btree_init_page(ZeroPage)

btree_put_item(p, item, target) == item_put(p, item, target, BTreePayloadLen)

(* The copy loop of split_page from item i on: the items of the page go to *)
(* the left buffer or to the right page, the new tuple before the item at  *)
(* its offset.  lo and ro are the next offsets on the two sides.           *)
RECURSIVE split_copy(_, _, _, _, _, _, _, _, _)
split_copy(page, tuple, offset, first_right, i, left, right, lo, ro) ==
    LET n == num_line_pointers(page)
        failed(r) == [ok |-> FALSE, panic |-> r.panic, left |-> left, right |-> right]
        moved(l, lo1, r, ro1) ==
            LET onleft(q) ==
                    IF ~q.ok THEN failed(q)
                    ELSE split_copy(page, tuple, offset, first_right, i + 1,
                                    q.page, r, lo1 + 1, ro1)
                onright(q) ==
                    IF ~q.ok THEN failed(q)
                    ELSE split_copy(page, tuple, offset, first_right, i + 1,
                                    l, q.page, lo1, ro1 + 1)
            IN  IF i < first_right THEN onleft(btree_put_item(l, page.items[i], lo1))
                ELSE onright(btree_put_item(r, page.items[i], ro1))
        new_left(q) == IF ~q.ok THEN failed(q) ELSE moved(q.page, lo + 1, right, ro)
        new_right(q) == IF ~q.ok THEN failed(q) ELSE moved(left, lo, q.page, ro + 1)
        last(q) == IF ~q.ok THEN failed(q)
                   ELSE [ok |-> TRUE, panic |-> FALSE, left |-> left, right |-> q.page]
    IN  IF i > n
        THEN (IF offset > n THEN last(btree_put_item(right, tuple, ro))
              ELSE [ok |-> TRUE, panic |-> FALSE, left |-> left, right |-> right])
        ELSE IF i = offset
        THEN (IF offset < first_right THEN new_left(btree_put_item(left, tuple, lo))
              ELSE new_right(btree_put_item(right, tuple, ro)))
        ELSE moved(left, lo, right, ro)

(* BTree::split_page up to the fetch of the right sibling: the left page   *)
(* is built in a buffer, the right page in the new page right_page_num.    *)
split_page(page, page_num, right_page_num, tuple, offset) ==
    LET first_right == get_split_location(page)
        left0 == [btree_init_page(page) EXCEPT
                      !.flags = page.flags \ {"IS_ROOT"}, !.prev = page.prev,
                      !.next = right_page_num]
        right0 == [BTreeNewPage EXCEPT
                      !.flags = page.flags \ {"IS_ROOT"}, !.prev = page_num,
                      !.next = page.next]
        high_key == IF first_right = offset THEN tuple ELSE page.items[first_right]
        failed(q) == [ok |-> FALSE, panic |-> q.panic, left |-> page, right |-> right0]
        copy(l, r, ro) ==
            split_copy(page, tuple, offset, first_right, first_key_offset(page),
                       l, r, high_key_offset + 1, ro)
        with_right(l, q) == IF ~q.ok THEN failed(q)
                            ELSE copy(l, q.page, high_key_offset + 1)
        with_left(q) ==
            IF ~q.ok THEN failed(q)
            ELSE IF is_rightmost(page) THEN copy(q.page, right0, high_key_offset)
            ELSE with_right(q.page, btree_put_item(right0, page.items[high_key_offset],
                                                   high_key_offset))
    IN  with_left(btree_put_item(left0, high_key, high_key_offset))


(* ======================================================================= *)
(* XID comparison (concurrency/mod.rs): the operators <, == and > of XID   *)
(* ======================================================================= *)
(* PartialOrd::lt and gt go through cmp; == is the derived PartialEq       *)
xid_lt(a, b) == cmp(a, b) < 0

xid_gt(a, b) == cmp(a, b) > 0

xid_eq(a, b) == a = b

ValidXids == 1..(XidMod - 1)

InitXid ==
    \E x \in ValidXids, y \in ValidXids :
        InitUnit([kind |-> "xid", x |-> x, y |-> y, done |-> FALSE,
                  lt |-> FALSE, eq |-> FALSE, gt |-> FALSE])

XidCompare ==
    /\ unit.kind = "xid" /\ ~unit.done
    /\ unit' = [unit EXCEPT !.done = TRUE,
                            !.lt = xid_lt(unit.x, unit.y),
                            !.eq = xid_eq(unit.x, unit.y),
                            !.gt = xid_gt(unit.x, unit.y)]
    /\ UNCHANGED <<store, tm, txns, scans, proc, master, ckpt, hist, index, ops>>

NextXid == XidCompare

SpecXid == InitXid /\ [][NextXid]_vars

(* C20: for all valid XIDs x and y exactly one of x < y, x == y and x > y  *)
(* holds, pairs half the range apart included                              *)
C20_XidTrichotomy ==
    (unit.kind = "xid" /\ unit.done) =>
        /\ unit.lt \/ unit.eq \/ unit.gt
        /\ ~(unit.lt /\ unit.eq) /\ ~(unit.lt /\ unit.gt) /\ ~(unit.eq /\ unit.gt)

C20_Witness ==
    /\ unit.kind = "xid" /\ unit.done
    /\ (unit.x - unit.y) % XidMod = XidMod \div 2
    /\ unit.lt


(* ======================================================================= *)
(* One item page under put_item and get_item (storage/mod.rs)              *)
(* ======================================================================= *)
MaxPuts == 4
TinyLen == 70

(* ItemPageReader::get_item: the bytes the line pointer of the slot names. *)
(* put_item writes the line pointer and then copies the item to            *)
(* upper..upper+len, so a line pointer that lies at or above upper holds   *)
(* bytes of the item and names some other range: Clobbered.                *)
Clobbered == [id |-> -1, len |-> 0]

get_item(p, offset) ==
    IF P_POINTERS + offset * LINE_POINTER_SIZE > p.upper THEN Clobbered
    ELSE p.items[offset]

ItemLens == {TinyLen, SmallLen, LargeLen}

InitPage ==
    InitUnit([kind |-> "page", page |-> init_item_page(ZeroPage), n |-> 0,
              called |-> FALSE, result |-> "none", offset |-> 0, target |-> 0,
              item |-> Clobbered, before |-> ZeroPage])

(* put_item(item, target, false) with target = 0 for None; a panic (the    *)
(* subtraction upper - len below 0) ends the run                           *)
PutItem(len, target) ==
    /\ unit.kind = "page" /\ unit.n < MaxPuts /\ unit.result # "panic"
    /\ LET item == [id |-> unit.n + 1, len |-> len]
           put(r) ==
               unit' = [unit EXCEPT !.page = r.page, !.n = @ + 1,
                                    !.called = TRUE, !.offset = r.offset,
                                    !.result = IF r.ok THEN "Ok"
                                               ELSE IF r.panic THEN "panic"
                                               ELSE "Err",
                                    !.target = target, !.item = item,
                                    !.before = unit.page]
       IN  put(put_item(unit.page, item, target))
    /\ UNCHANGED <<store, tm, txns, scans, proc, master, ckpt, hist, index, ops>>

NextPage == \E len \in ItemLens, target \in 0..MaxPuts : PutItem(len, target)

SpecPage == InitPage /\ [][NextPage]_vars

(* C18: a put_item that returns an offset returns n+1 for None and t for   *)
(* Some(t); get_item of that offset is the item, the items below it keep   *)
(* their offsets and bytes, the items from it on move up by one            *)
C18_PutItemPlaces ==
    (unit.kind = "page" /\ unit.called /\ unit.result = "Ok") =>
        LET n == num_line_pointers(unit.before)
            off == unit.offset
        IN  /\ off = (IF unit.target = 0 THEN n + 1 ELSE unit.target)
            /\ num_line_pointers(unit.page) = n + 1
            /\ get_item(unit.page, off) = unit.item
            /\ \A k \in 1..n :
                   get_item(unit.page, IF k < off THEN k ELSE k + 1)
                       = get_item(unit.before, k)


(* ======================================================================= *)
(* Heap inserts of tuples of any size (am/heap.rs)                         *)
(* ======================================================================= *)
(* The largest data length whose stored form fits in an empty heap page    *)
FitLen ==
    get_free_space(init_item_page(ZeroPage)) - HeapTupleHeaderLen

HeapLens ==
    {SmallLen, FitLen, FitLen + 1, FitLen + 9,
     tuple_size_limit - HeapTupleHeaderLen + 1}

Builds == {"overflow-checks", "wrapping"}

InitHeap ==
    InitUnit([kind |-> "heap", n |-> 0, called |-> FALSE, stored |-> 0,
              outcome |-> "none", unchanged |-> TRUE])

PagesOf(s) == [i \in 1..Len(s.pool) |-> s.pool[i].page]

(* Heap::insert_tuple of len bytes of data, with what it returned and      *)
(* whether it left the heap pages, the heap file and the WAL as they were. *)
(* A panic ends the process.                                               *)
HeapInsert(x, len) ==
    /\ proc = "running" /\ txns[x].state = "active"
    /\ unit.kind = "heap" /\ unit.n < MaxTuples
    /\ \E build \in Builds :
        LET returned(r, outcome) ==
                /\ store' = r.s
                /\ proc' = IF outcome = "panic" THEN "panicked" ELSE proc
                /\ unit' = [unit EXCEPT
                       !.n = @ + 1, !.called = TRUE,
                       !.stored = HeapTupleHeaderLen + len,
                       !.outcome = outcome,
                       !.unchanged = /\ r.s.file = store.file
                                     /\ r.s.wal = store.wal
                                     /\ PagesOf(r.s) = PagesOf(store)]
                /\ hist' = IF r.ok
                           THEN [hist EXCEPT !.tuples = Append(@,
                                    [xid |-> x, page |-> r.ptr[1], off |-> r.ptr[2],
                                     len |-> HeapTupleHeaderLen + len,
                                     epoch |-> hist.crashes])]
                           ELSE hist
            resolved(r) ==
                returned(r, IF r.outcome # "underflow" THEN r.outcome
                            ELSE IF build = "overflow-checks" THEN "panic"
                            ELSE "DataCorrupted")
        IN  resolved(insert_tuple(store,
                prepare_heap_tuple_for_insert(Len(hist.tuples) + 1, len, x), x))
    /\ UNCHANGED <<tm, txns, scans, master, ckpt, index, ops>>

NextHeap ==
    \/ \E x \in XIDs, level \in Levels : AllocXid(x, level)
    \/ \E x \in XIDs : RegisterXid(x)
    \/ \E x \in XIDs, len \in HeapLens : HeapInsert(x, len)

SpecHeap == InitHeap /\ [][NextHeap]_vars

(* C17: insert_tuple of a tuple whose stored form does not fit in an empty *)
(* heap page returns ProgramLimitExceed and leaves the heap pages, the     *)
(* heap file and the WAL as they were                                      *)
C17_OversizedRejected ==
    (unit.kind = "heap" /\ unit.called
     /\ unit.stored > get_free_space(init_item_page(ZeroPage))) =>
        /\ unit.outcome = "ProgramLimitExceed"
        /\ unit.unchanged

(* C19: every initialised heap page, in the buffer cache and in the file,  *)
(* has HEADER <= lower <= upper <= PAGE_END, so that the items, which lie  *)
(* from upper on, do not overlap the line pointers, which end at lower     *)
C19_PageBounds ==
    unit.kind = "heap" =>
        LET bounded(p) ==
                is_new(p) \/ (/\ P_POINTERS <= p.lower
                              /\ p.lower <= p.upper
                              /\ p.upper <= PAGE_SIZE - P_PAYLOAD)
        IN  /\ \A i \in 1..Len(store.pool) : bounded(store.pool[i].page)
            /\ \A i \in 1..Len(store.file) : bounded(store.file[i])


(* ======================================================================= *)
(* The log alone: appends, flush, and a reader from LSN 0 (wal/mod.rs)     *)
(* ======================================================================= *)
MaxAppends == 4

(* Record lengths: a few bytes, a record that ends one byte before the end *)
(* of an empty page, three bytes before it, and one that fills the page    *)
WalLens ==
    {5, SEGMENT_PAGE_SIZE - RECORD_HEADER_SIZE - 3,
     SEGMENT_PAGE_SIZE - RECORD_HEADER_SIZE - 1,
     SEGMENT_PAGE_SIZE - RECORD_HEADER_SIZE}

InitWal ==
    InitUnit([kind |-> "wal", appended |-> <<>>, flushed |-> FALSE,
              read_done |-> FALSE, recs |-> <<>>, tag |-> "none"])

(* Wal::append_raw of the next record.  With page_start at the capacity    *)
(* the page count of sufficient_capacity is 0 - 1 in usize: a panic in a   *)
(* build with overflow checks.                                             *)
WalAppend(len) ==
    /\ proc = "running" /\ unit.kind = "wal" /\ ~unit.read_done
    /\ Len(unit.appended) < MaxAppends
    /\ \E build \in Builds :
        LET id == Len(unit.appended) + 1
            appended(r) ==
                /\ store' = [store EXCEPT !.wal = r.wal]
                /\ unit' = [unit EXCEPT !.flushed = FALSE,
                               !.appended = Append(@, [id |-> id, len |-> len,
                                                       start_pos |-> r.start_pos,
                                                       end_pos |-> r.end_pos])]
                /\ UNCHANGED proc
        IN  IF store.wal.seg.page_start >= Capacity /\ build = "overflow-checks"
            THEN proc' = "panicked" /\ UNCHANGED <<store, unit>>
            ELSE appended(append_raw(store.wal, id, len))
    /\ UNCHANGED <<tm, txns, scans, master, ckpt, hist, index, ops>>

(* Wal::flush(None) *)
WalFlush ==
    /\ proc = "running" /\ unit.kind = "wal" /\ ~unit.read_done /\ ~unit.flushed
    /\ store' = [store EXCEPT !.wal.seg = flush_page(@, FALSE)]
    /\ unit' = [unit EXCEPT !.flushed = TRUE]
    /\ UNCHANGED <<tm, txns, scans, proc, master, ckpt, hist, index, ops>>

(* WalReaderIterator from pos: the records until the reader ends ("none")  *)
(* or fails ("err")                                                        *)
RECURSIVE read_all(_, _, _)
read_all(files, pos, fuel) ==
    LET next(r) ==
            LET rest(t) == [recs |-> <<r.rec>> \o t.recs, tag |-> t.tag]
            IN  IF r.tag = "rec" THEN rest(read_all(files, r.pos, fuel - 1))
                ELSE [recs |-> <<>>, tag |-> r.tag]
    IN  IF fuel = 0 THEN [recs |-> <<>>, tag |-> "more"]
        ELSE next(reader_read_record(files, pos))

(* Wal::get_reader(0) and the iteration to its end; SegmentView::open      *)
(* refuses a file longer than the capacity                                 *)
WalRead ==
    /\ proc = "running" /\ unit.kind = "wal" /\ unit.flushed /\ ~unit.read_done
    /\ LET files == wal_files(store.wal)
           got(r) == unit' = [unit EXCEPT !.read_done = TRUE, !.recs = r.recs,
                                          !.tag = r.tag]
       IN  IF \E i \in 1..Len(files) : files[i].size > Capacity
           THEN got([recs |-> <<>>, tag |-> "err"])
           ELSE got(read_all(files, 0, MaxAppends + 1))
    /\ UNCHANGED <<store, tm, txns, scans, proc, master, ckpt, hist, index, ops>>

NextWal ==
    \/ \E len \in WalLens : WalAppend(len)
    \/ WalFlush
    \/ WalRead

SpecWal == InitWal /\ [][NextWal]_vars

(* C12: after appends and a flush a reader from LSN 0 returns the appended *)
(* records, all of them, in append order, and then ends                    *)
C12_WalRoundTrip ==
    (unit.kind = "wal" /\ unit.read_done) =>
        /\ unit.tag = "none"
        /\ unit.recs = [i \in 1..Len(unit.appended) |-> unit.appended[i].id]

(* C13: the LSN ranges of consecutive appends are not empty, are in append *)
(* order and do not overlap                                                *)
C13_MonotoneLsn ==
    unit.kind = "wal" =>
        \A i \in 1..Len(unit.appended) :
            /\ unit.appended[i].start_pos < unit.appended[i].end_pos
            /\ i > 1 => unit.appended[i - 1].end_pos <= unit.appended[i].start_pos

(* two appends, the second in a new segment after the padding of a page *)
C13_Witness ==
    /\ unit.kind = "wal" /\ Len(unit.appended) >= 2
    /\ Len(store.wal.closed) >= 1
    /\ \E i \in 2..Len(unit.appended) :
           /\ unit.appended[i].start_pos = Capacity
           /\ unit.appended[i - 1].end_pos < Capacity


(* ======================================================================= *)
(* The transaction status table (concurrency/transaction_table.rs), with   *)
(* pages of TablePageSize bytes and a cache of TableCacheCapacity pages    *)
(* ======================================================================= *)
TablePageSize == 8
TableCacheCapacity == 2
MaxTableOps == 5

TXNS_PER_BYTE == 4
TXNS_PER_PAGE == TXNS_PER_BYTE * TablePageSize

(* The statuses as stored: InProgress 0, Committed 1, Aborted 2 *)
ZeroByte == [i \in 1..TXNS_PER_BYTE |-> 0]

(* XIDs on pages 0, 1 and 2; 9 lies in byte 2 of page 0 *)
TableXids == {1, 9, TXNS_PER_PAGE + 1, 2 * TXNS_PER_PAGE + 1}

(* write_page and checkpoint: seek to page_num * TABLE_CACHE_CAPACITY and  *)
(* write the buffer; the file grows as far as the write reaches            *)
table_write_page(file, page_num, buffer) ==
    LET off == page_num * TableCacheCapacity
        len == IF Len(file) > off + TablePageSize THEN Len(file)
               ELSE off + TablePageSize
    IN  [i \in 1..len |->
            IF i > off /\ i <= off + TablePageSize THEN buffer[i - off]
            ELSE IF i <= Len(file) THEN file[i] ELSE ZeroByte]

(* alloc_page: a fresh page below the capacity, else the least recently    *)
(* used page, written back when dirty, with its page_num as it was         *)
table_alloc_page(t, page_num) ==
    IF Len(t.lru) < TableCacheCapacity
    THEN [t |-> t, page |-> [page_num |-> page_num, dirty |-> FALSE,
                             buffer |-> [i \in 1..TablePageSize |-> ZeroByte]]]
    ELSE LET victim == Head(t.lru)
         IN  [t |-> [t EXCEPT !.lru = Tail(@),
                        !.file = IF victim.page.dirty
                                 THEN table_write_page(@, victim.key, victim.page.buffer)
                                 ELSE @],
              page |-> [victim.page EXCEPT !.dirty = FALSE]]

(* put_page: LruCache::put under the page's own page_num; the entry of     *)
(* that key is replaced, and the least recently used entry gives way when  *)
(* the cache is full                                                       *)
table_put_page(t, page) ==
    LET others == SelectSeq(t.lru, LAMBDA e : e.key # page.page_num)
        kept == IF Len(others) >= TableCacheCapacity THEN Tail(others) ELSE others
    IN  [t EXCEPT !.lru = Append(kept, [key |-> page.page_num, page |-> page])]

(* new_page *)
table_new_page(t, page_num) ==
    LET zeroed(a) ==
            [t |-> [a.t EXCEPT !.last_page_num = page_num],
             page |-> [a.page EXCEPT !.buffer = [i \in 1..TablePageSize |-> ZeroByte]]]
    IN  zeroed(table_alloc_page(t, page_num))

(* fetch_page, with read_page: read_exact of a whole page at the offset    *)
(* page_num * TABLE_CACHE_CAPACITY                                         *)
table_fetch_page(t, page_num) ==
    LET hit == {i \in 1..Len(t.lru) : t.lru[i].key = page_num}
        off == page_num * TableCacheCapacity
        read(a) ==
            IF Len(a.t.file) < off + TablePageSize
            THEN [ok |-> FALSE, t |-> a.t, page |-> a.page]
            ELSE [ok |-> TRUE, t |-> a.t,
                  page |-> [a.page EXCEPT !.buffer =
                               [i \in 1..TablePageSize |-> a.t.file[off + i]]]]
    IN  IF page_num > t.last_page_num
        THEN [ok |-> FALSE, t |-> t, page |-> [page_num |-> 0]]
        ELSE IF hit # {}
        THEN LET i == CHOOSE i \in hit : TRUE
             IN  [ok |-> TRUE, page |-> t.lru[i].page,
                  t |-> [t EXCEPT !.lru = SelectSeq(@, LAMBDA e : e.key # page_num)]]
        ELSE read(table_alloc_page(t, page_num))

(* TransactionTable::open on a file *)
table_open(file) ==
    LET t0 == [ok |-> TRUE, file |-> file, lru |-> <<>>,
               last_page_num |-> Len(file) \div TablePageSize]
        first(a) ==
            table_put_page([a.t EXCEPT !.file = table_write_page(@, 0, a.page.buffer)],
                           a.page)
    IN  IF Len(file) % TablePageSize # 0 THEN [t0 EXCEPT !.ok = FALSE]
        ELSE IF t0.last_page_num = 0 THEN first(table_new_page(t0, 0))
        ELSE t0

(* checkpoint: the dirty pages of the cache, most recently used first *)
RECURSIVE table_checkpoint(_, _)
table_checkpoint(t, i) ==
    IF i = 0 THEN t
    ELSE table_checkpoint(
             IF t.lru[i].page.dirty
             THEN [t EXCEPT !.lru[i].page.dirty = FALSE,
                            !.file = table_write_page(@, t.lru[i].key,
                                                      t.lru[i].page.buffer)]
             ELSE t, i - 1)

(* set_transaction_status *)
set_transaction_status(t, x, status) ==
    LET bytepos == ((x % TXNS_PER_PAGE) \div TXNS_PER_BYTE) + 1
        byteoff == ((x % TXNS_PER_PAGE) % TXNS_PER_BYTE) + 1
        fetched(f) ==
            IF ~f.ok THEN [ok |-> FALSE, t |-> f.t]
            ELSE [ok |-> TRUE,
                  t |-> table_put_page(f.t,
                            [f.page EXCEPT !.dirty = TRUE,
                                           !.buffer[bytepos][byteoff] = status])]
    IN  fetched(table_fetch_page(t, x \div TXNS_PER_PAGE))

(* get_transaction_status *)
get_transaction_status(t, x) ==
    LET bytepos == ((x % TXNS_PER_PAGE) \div TXNS_PER_BYTE) + 1
        byteoff == ((x % TXNS_PER_PAGE) % TXNS_PER_BYTE) + 1
        fetched(f) ==
            IF ~f.ok THEN [ok |-> FALSE, t |-> f.t, status |-> 0]
            ELSE [ok |-> TRUE, t |-> table_put_page(f.t, f.page),
                  status |-> f.page.buffer[bytepos][byteoff]]
    IN  fetched(table_fetch_page(t, x \div TXNS_PER_PAGE))

InitTable ==
    InitUnit([kind |-> "table", t |-> table_open(<<>>), n |-> 0,
              set |-> [x \in TableXids |-> 0],
              got |-> [called |-> FALSE, ok |-> TRUE, xid |-> 0, status |-> 0,
                       last_set |-> 0]])

(* set_transaction_status(x, status) on a page the table has *)
TableSet(x, status) ==
    /\ unit.kind = "table" /\ unit.t.ok /\ unit.n < MaxTableOps
    /\ x \div TXNS_PER_PAGE <= unit.t.last_page_num
    /\ LET set(r) ==
               unit' = [unit EXCEPT !.t = r.t, !.n = @ + 1,
                                    !.set[x] = IF r.ok THEN status ELSE @]
       IN  set(set_transaction_status(unit.t, x, status))
    /\ UNCHANGED <<store, tm, txns, scans, proc, master, ckpt, hist, index, ops>>

(* get_transaction_status(x) of an XID whose status was set; on a table    *)
(* that could not be opened there is nothing to return                     *)
TableGet(x) ==
    /\ unit.kind = "table" /\ unit.n < MaxTableOps /\ unit.set[x] # 0
    /\ LET got(r) ==
               unit' = [unit EXCEPT !.t = r.t, !.n = @ + 1,
                           !.got = [called |-> TRUE, ok |-> r.ok, xid |-> x,
                                    status |-> r.status, last_set |-> unit.set[x]]]
       IN  IF ~unit.t.ok THEN got([ok |-> FALSE, t |-> unit.t, status |-> 0])
           ELSE got(get_transaction_status(unit.t, x))
    /\ UNCHANGED <<store, tm, txns, scans, proc, master, ckpt, hist, index, ops>>

(* extend(db, xid) for the first XID of the next page *)
TableExtend ==
    /\ unit.kind = "table" /\ unit.t.ok /\ unit.n < MaxTableOps
    /\ (unit.t.last_page_num + 1) * TXNS_PER_PAGE <= 2 * TXNS_PER_PAGE + 1
    /\ LET made(a) == unit' = [unit EXCEPT !.n = @ + 1,
                                           !.t = table_put_page(a.t, a.page)]
       IN  made(table_new_page(unit.t, unit.t.last_page_num + 1))
    /\ UNCHANGED <<store, tm, txns, scans, proc, master, ckpt, hist, index, ops>>

(* checkpoint(), then the table is dropped and opened again on its file *)
TableReopen ==
    /\ unit.kind = "table" /\ unit.t.ok /\ unit.n < MaxTableOps
    /\ unit' = [unit EXCEPT !.n = @ + 1,
                   !.t = table_open(table_checkpoint(unit.t, Len(unit.t.lru)).file)]
    /\ UNCHANGED <<store, tm, txns, scans, proc, master, ckpt, hist, index, ops>>

NextTable ==
    \/ \E x \in TableXids, status \in 1..2 : TableSet(x, status)
    \/ \E x \in TableXids : TableGet(x)
    \/ TableExtend
    \/ TableReopen

SpecTable == InitTable /\ [][NextTable]_vars

(* C15: get_transaction_status(x) returns the status last set for x, with  *)
(* sets of other XIDs, evictions and a reopen of the table in between      *)
C15_StatusGetSet ==
    (unit.kind = "table" /\ unit.got.called) =>
        /\ unit.got.ok
        /\ unit.got.status = unit.got.last_set


ZeroIndexPage ==
    [lsn |-> 0, prev |-> 0, next |-> 0, level |-> 0, flags |-> {},
     lower |-> 0, upper |-> 0, items |-> <<>>]

(* BTreeInsertLog::apply on the pages of the index file *)
btree_insert_apply(idx, rec, lsn) ==
    LET n == rec.page_num + 1
        put(p1, r) ==
            IF ~r.ok THEN [ok |-> FALSE, idx |-> [idx EXCEPT ![n] = p1]]
            ELSE [ok |-> TRUE, idx |-> [idx EXCEPT ![n] = [r.page EXCEPT !.lsn = lsn]]]
        inited(p1) == put(p1, btree_put_item(p1, rec.tuple, rec.offset))
    IN  IF n > Len(idx) THEN [ok |-> FALSE, idx |-> idx]
        ELSE IF idx[n].lsn >= lsn THEN [ok |-> TRUE, idx |-> idx]
        ELSE inited(IF is_new(idx[n]) THEN btree_init_page(idx[n]) ELSE idx[n])

(* BTreeNewRootLog::apply: the root page under the LSN check, then the     *)
(* meta page without one                                                   *)
RECURSIVE put_root_tuples(_, _, _, _)
put_root_tuples(p, tuples, offset, i) ==
    IF i > Len(tuples) THEN [ok |-> TRUE, page |-> p]
    ELSE LET put(r) == IF ~r.ok THEN [ok |-> FALSE, page |-> r.page]
                       ELSE put_root_tuples(r.page, tuples, offset, i + 1)
         IN  put(btree_put_item(p, tuples[i], offset + i - 1))

btree_new_root_apply(idx, rec, lsn) ==
    LET n == rec.root_page_num + 1
        meta(i1) ==
            [ok |-> TRUE,
             idx |-> [i1 EXCEPT ![rec.meta_page_num + 1] =
                                    [lsn |-> lsn, root |-> rec.root_page_num]]]
        put(r) ==
            IF ~r.ok THEN [ok |-> FALSE, idx |-> [idx EXCEPT ![n] = r.page]]
            ELSE meta([idx EXCEPT ![n] = [r.page EXCEPT !.lsn = lsn]])
        inited(p1) ==
            put(put_root_tuples(
                    [p1 EXCEPT !.prev = 0, !.next = 0, !.level = rec.level,
                               !.flags = @ \cup {"IS_ROOT"}
                                           \cup (IF rec.level = 0 THEN {"IS_LEAF"}
                                                 ELSE {})],
                    rec.root_tuples, rec.offset, 1))
    IN  IF n > Len(idx) THEN [ok |-> FALSE, idx |-> idx]
        ELSE IF idx[n].lsn >= lsn THEN meta(idx)
        ELSE inited(IF is_new(idx[n]) THEN btree_init_page(idx[n]) ELSE idx[n])

(* TransactionTable::redo_table_zero_page *)
redo_table_zero_page(t, page_num) ==
    LET written(a) ==
            table_put_page([a.t EXCEPT !.file = table_write_page(@, page_num,
                                                                 a.page.buffer)],
                           a.page)
    IN  written(table_new_page(t, page_num))

(* LogRecord::apply on a database db: the heap behind its buffer cache,    *)
(* the index pages, the status table, the next OID                         *)
redo_apply(db, rec, lsn) ==
    LET heap(h) == [ok |-> h.ok, db |-> [db EXCEPT !.store = h.s]]
        btree(b) == [ok |-> b.ok, db |-> [db EXCEPT !.idx = b.idx]]
        commit(c) ==
            [ok |-> c.ok,
             db |-> [db EXCEPT !.t = c.t,
                               !.store.wal = IF c.ok THEN wal_flush(@, lsn) ELSE @]]
    IN  CASE rec.kind = "HeapInsert" -> heap(heap_insert_apply(db.store, rec, lsn))
          [] rec.kind = "BTreeInsert" -> btree(btree_insert_apply(db.idx, rec, lsn))
          [] rec.kind = "BTreeNewRoot" -> btree(btree_new_root_apply(db.idx, rec, lsn))
          [] rec.kind = "Commit" -> commit(set_transaction_status(db.t, rec.xid, 1))
          [] rec.kind = "ZeroPage" ->
                 [ok |-> TRUE,
                  db |-> [db EXCEPT !.t = redo_table_zero_page(@, rec.page_num)]]
          [] rec.kind = "NextOid" ->
                 [ok |-> TRUE, db |-> [db EXCEPT !.next_oid = rec.next_oid]]

(* The records and the states they are applied to *)
RedoRecords ==
    LET tuple(k) == IndexTuple(k, KeyLen, <<0, k>>)
    IN  {[kind |-> "HeapInsert", xid |-> 1, page_num |-> 0, offset |-> o,
          id |-> 7, len |-> SmallLen] : o \in 0..1}
        \cup {[kind |-> "BTreeInsert", page_num |-> 1, offset |-> o,
               tuple |-> tuple(2)] : o \in 1..2}
        \cup {[kind |-> "BTreeNewRoot", meta_page_num |-> BTREE_META_PAGE_NUM,
               root_page_num |-> 1, level |-> l, offset |-> 1,
               root_tuples |-> IF l = 0 THEN <<>> ELSE <<tuple(0), tuple(2)>>]
              : l \in 0..1}
        \cup {[kind |-> "Commit", xid |-> x] : x \in {1, TXNS_PER_PAGE + 1}}
        \cup {[kind |-> "ZeroPage", page_num |-> n] : n \in 1..2}
        \cup {[kind |-> "NextOid", next_oid |-> 5]}

RedoStates ==
    LET heap_page == [put_tuple(init_item_page(ZeroPage),
                               HeapTuple(1, SmallLen, 1, {}), -1).page
                      EXCEPT !.lsn = 10]
        leaf == [btree_put_item([BTreeNewPage EXCEPT !.flags = {"IS_LEAF", "IS_ROOT"}],
                                IndexTuple(1, KeyLen, <<0, 1>>), 0).page
                 EXCEPT !.lsn = 10]
        one_page == set_transaction_status(table_open(<<>>), 1, 2).t
        two_pages ==
            set_transaction_status(
                table_put_page(table_new_page(one_page, 1).t,
                               table_new_page(one_page, 1).page),
                TXNS_PER_PAGE + 1, 2).t
    IN  [store : {[InitStore EXCEPT !.file = <<p>>] : p \in {ZeroPage, heap_page}},
         idx : {InitIndex \o <<ZeroIndexPage>>, <<[lsn |-> 10, root |-> 1], leaf>>},
         t : {one_page, two_pages},
         next_oid : {1}]

RedoLsns == {5, 15}

InitRedo ==
    \E rec \in RedoRecords, lsn \in RedoLsns, db \in RedoStates :
        InitUnit([kind |-> "redo", rec |-> rec, lsn |-> lsn, db |-> db,
                  done |-> FALSE, ok |-> FALSE, once |-> db, twice |-> db])

(* the record is applied, and applied again to what the first redo left *)
RedoTwice ==
    /\ unit.kind = "redo" /\ ~unit.done
    /\ LET second(a, b) ==
               unit' = [unit EXCEPT !.done = TRUE, !.ok = a.ok,
                                    !.once = a.db, !.twice = b.db]
           first(a) == second(a, redo_apply(a.db, unit.rec, unit.lsn))
       IN  first(redo_apply(unit.db, unit.rec, unit.lsn))
    /\ UNCHANGED <<store, tm, txns, scans, proc, master, ckpt, hist, index, ops>>

NextRedo == RedoTwice

SpecRedo == InitRedo /\ [][NextRedo]_vars

(* What can be observed of a database: the heap pages in the cache and in  *)
(* the file, the log, the index pages, the next OID, and the status that   *)
(* the status table returns for each XID                                   *)
Observed(db) ==
    [pages |-> PagesOf(db.store), file |-> db.store.file, wal |-> db.store.wal,
     idx |-> db.idx, next_oid |-> db.next_oid,
     status |-> [x \in TableXids |->
                    LET got(r) == <<r.ok, r.status>>
                    IN  got(get_transaction_status(db.t, x))]]

(* C14: a record whose redo succeeds leaves, applied a second time with    *)
(* the same LSN, the same pages and tables as applied once                 *)
C14_RedoIdempotent ==
    (unit.kind = "redo" /\ unit.done /\ unit.ok) =>
        Observed(unit.twice) = Observed(unit.once)


(* ======================================================================= *)
(* Index operations, one latch acquisition at a time (am/btree.rs)         *)
(* ======================================================================= *)
(* An operation is the record of one thread (see IdleOp); b is the index   *)
(* file with the log, [idx, wal].  Every insert holds its latches for      *)
(* write, every scan for read.  An operator below runs the thread from one *)
(* latch acquisition to the next: want is the page whose latch the thread  *)
(* asks for next, held the pages whose latches it keeps meanwhile.         *)
tree_page(b, n) == b.idx[n + 1]

set_tree_page(b, n, p) == [b EXCEPT !.idx[n + 1] = p]

(* get_tree_page_write(None): the new page is the next page of the file *)
new_tree_page(b) == [b EXCEPT !.idx = Append(@, BTreeNewPage)]

op_end(b, o, pc, err) ==
    [b |-> b, o |-> [o EXCEPT !.pc = pc, !.err = err, !.held = {}, !.want = -1]]

btree_logged(b, rec, len) ==
    LET at(a) == [b |-> [b EXCEPT !.wal = a.wal], lsn |-> a.end_pos]
    IN  at(append_raw(b.wal, rec, len))

(* BTree::new_root once the meta page is latched; the thread holds both    *)
(* halves and the new root page                                            *)
new_root(b, o) ==
    LET left == tree_page(b, o.left)
        high == left.items[high_key_offset]
        left_tuple == set_downlink(IndexTuple(-1, 0, <<0, 0>>), o.left)
        right_tuple ==
            set_downlink(IndexTuple(high.key, high.len - IndexTupleHeaderLen,
                                    <<0, 0>>), o.right)
        level == left.level + 1
        root0 == [tree_page(b, o.root) EXCEPT
                      !.prev = 0, !.next = 0, !.level = level,
                      !.flags = @ \cup {"IS_ROOT"}]
        logged(p, a) ==
            op_end([a.b EXCEPT !.idx[o.root + 1] = [p EXCEPT !.lsn = a.lsn],
                               !.idx[BTREE_META_PAGE_NUM + 1] =
                                   [lsn |-> a.lsn, root |-> o.root]],
                   o, "done", "")
        second(r) ==
            IF ~r.ok THEN op_end(b, o, "failed", "DataCorrupted")
            ELSE logged(r.page,
                        btree_logged(b, [kind |-> "BTreeNewRoot",
                                         meta_page_num |-> BTREE_META_PAGE_NUM,
                                         root_page_num |-> o.root, level |-> level,
                                         offset |-> high_key_offset,
                                         root_tuples |-> <<left_tuple, right_tuple>>],
                                     BTreeNewRootLogLen + left_tuple.len
                                         + right_tuple.len))
        first(r) ==
            IF ~r.ok THEN op_end(b, o, "failed", "DataCorrupted")
            ELSE second(btree_put_item(r.page, right_tuple, high_key_offset + 1))
    IN  IF num_line_pointers(left) < high_key_offset
        THEN op_end(b, o, "failed", "panic")
        ELSE first(btree_put_item(root0, left_tuple, high_key_offset))

(* BTree::insert_into_parent up to the latch it asks for: the meta page    *)
(* for a new root, else the parent at the tail of the path                 *)
insert_into_parent(b, o) ==
    LET left == tree_page(b, o.left)
        high == left.items[high_key_offset]
        right_tuple ==
            set_downlink(IndexTuple(high.key, high.len - IndexTupleHeaderLen,
                                    <<0, 0>>), o.right)
        tail == o.path[Len(o.path)]
    IN  IF o.is_root
        THEN [b |-> new_tree_page(b),
              o |-> [o EXCEPT !.root = Len(b.idx), !.held = @ \cup {Len(b.idx)},
                              !.pc = "new_root", !.want = BTREE_META_PAGE_NUM]]
        ELSE IF num_line_pointers(left) < high_key_offset \/ o.path = <<>>
        THEN op_end(b, o, "failed", "panic")
        ELSE [b |-> b,
              o |-> [o EXCEPT !.tuple = right_tuple,
                              !.path = SubSeq(@, 1, Len(@) - 1),
                              !.want = tail[1], !.offset = tail[2],
                              !.pc = "parent"]]

(* the end of split_page: the right sibling, when there is one and its     *)
(* latch is held, gets its prev; the left buffer is copied into the page   *)
split_finish(b, o, sibling) ==
    LET b1 == IF sibling = 0 THEN b
              ELSE [b EXCEPT !.idx[sibling + 1].prev = o.right]
    IN  insert_into_parent(set_tree_page(b1, o.left, o.buffer),
                           [o EXCEPT !.held = {o.left, o.right}, !.want = -1])

(* BTree::insert_into_page with the page o.page latched: the tuple is put  *)
(* at o.offset, or the page is split                                       *)
insert_into_page(b, o0) ==
    LET page == tree_page(b, o0.page)
        right_page_num == Len(b.idx)
        \* history: the leaf the key goes to, and whether the leaf covers it
        o == IF page_type(page) = "Leaf"
             THEN [o0 EXCEPT !.placed =
                      [page |-> o0.page,
                       covered |-> \/ is_rightmost(page)
                                   \/ num_line_pointers(page) < high_key_offset
                                   \/ o0.key <= page.items[high_key_offset].key]]
             ELSE o0
        logged(p, a) ==
            op_end(set_tree_page(a.b, o.page, [p EXCEPT !.lsn = a.lsn]),
                   o, "done", "")
        put(r) ==
            IF ~r.ok
            THEN op_end(b, o, "failed", IF r.panic THEN "panic" ELSE "DataCorrupted")
            ELSE logged(r.page,
                        btree_logged(b, [kind |-> "BTreeInsert", page_num |-> o.page,
                                         offset |-> o.offset, tuple |-> o.tuple],
                                     BTreeInsertLogLen + o.tuple.len))
        split(r) ==
            LET b1 == [b EXCEPT !.idx = Append(@, r.right)]
                o1 == [o EXCEPT !.buffer = r.left, !.left = o.page,
                                !.right = right_page_num,
                                !.is_root = is_root(page),
                                !.held = {o.page, right_page_num}]
            IN  IF ~r.ok
                THEN op_end(b1, o, "failed",
                            IF r.panic THEN "panic" ELSE "DataCorrupted")
                ELSE IF is_rightmost(page) THEN split_finish(b1, o1, 0)
                ELSE [b |-> b1, o |-> [o1 EXCEPT !.pc = "sibling",
                                                 !.want = page.next]]
    IN  IF get_free_space(page) < o.tuple.len
        THEN split(split_page(page, o.page, right_page_num, o.tuple, o.offset))
        ELSE put(btree_put_item(page, o.tuple, o.offset))

(* walk_up_path with the new downlink put at the offset of the downlink    *)
(* to the left half, not after it                                          *)
walk_up_path_at(b, o) ==
    LET page_num == o.want
        page == tree_page(b, page_num)
        min_off == first_key_offset(page)
        max_off == num_line_pointers(page)
        off0 == IF o.offset > min_off THEN o.offset ELSE min_off
        offset == IF off0 > max_off THEN max_off + 1 ELSE off0
        up == {i \in offset..max_off : get_downlink(page.items[i]) = o.left}
        down == {i \in min_off..(offset - 1) : get_downlink(page.items[i]) = o.left}
        found == IF up # {} THEN CHOOSE i \in up : \A j \in up : i <= j
                 ELSE CHOOSE i \in down : \A j \in down : i >= j
    IN  IF up \cup down # {}
        THEN [hit |-> TRUE, b |-> b,
              o |-> [o EXCEPT !.page = page_num, !.offset = found,
                              !.held = {page_num}, !.want = -1]]
        ELSE IF is_rightmost(page)
        THEN [hit |-> FALSE] @@ op_end(b, o, "failed", "DataCorrupted")
        ELSE [hit |-> FALSE, b |-> b,
              o |-> [o EXCEPT !.want = page.next, !.offset = 0]]

(* BTree::walk_up_path with the parent o.want latched: the downlink to the *)
(* left half is looked for from o.offset on, then below it; when found the *)
(* halves are released and the downlink to the right half is inserted      *)
walk_up_path(b, o) ==
    LET page_num == o.want
        page == tree_page(b, page_num)
        min_off == first_key_offset(page)
        max_off == num_line_pointers(page)
        off0 == IF o.offset > min_off THEN o.offset ELSE min_off
        offset == IF off0 > max_off THEN max_off + 1 ELSE off0
        up == {i \in offset..max_off : get_downlink(page.items[i]) = o.left}
        down == {i \in min_off..(offset - 1) : get_downlink(page.items[i]) = o.left}
        found == IF up # {} THEN CHOOSE i \in up : \A j \in up : i <= j
                 ELSE CHOOSE i \in down : \A j \in down : i >= j
    IN  IF up \cup down # {}
        THEN [hit |-> TRUE, b |-> b,
              o |-> [o EXCEPT !.page = page_num, !.offset = found + 1,
                              !.held = {page_num}, !.want = -1]]
        ELSE IF is_rightmost(page)
        THEN [hit |-> FALSE] @@ op_end(b, o, "failed", "DataCorrupted")
        ELSE [hit |-> FALSE, b |-> b,
              o |-> [o EXCEPT !.want = page.next, !.offset = 0]]

(* BTreeScanIterator::read_page, forward: the items from offset on whose   *)
(* key satisfies the predicate (key > pred)                                *)
read_page(page, offset, pred) ==
    LET minoff == first_key_offset(page)
        from == IF offset > minoff THEN offset ELSE minoff
        all == SubSeq(page.items, from, num_line_pointers(page))
    IN  SelectSeq(all, LAMBDA itup : itup.key > pred)

(* read_next_page, forward, up to the latch of page page_num; the scan is  *)
(* over when there is no next page                                         *)
read_next_page(b, o, page_num) ==
    IF page_num = 0 THEN op_end(b, o, "done", "")
    ELSE [b |-> b, o |-> [o EXCEPT !.held = {}, !.want = page_num, !.pc = "next"]]

(* a leaf is latched and read from offset on: scan_first, scan_endpoint    *)
(* and the loop of read_next_page.  The items read are handed out one by   *)
(* one with no index latch held; step_page then goes to next_page.         *)
scan_page(b, o, page_num, offset) ==
    LET page == tree_page(b, page_num)
        items == read_page(page, offset, o.pred)
    IN  read_next_page(b, [o EXCEPT !.items = items, !.next_page = page.next,
                                    !.item_index = 0,
                                    !.returned = @ \o items],
                       page.next)

(* search_write, search_read and get_endpoint with the page o.page         *)
(* latched: on a leaf the descent is over, else the child is asked for     *)
(* with the latch of this page held                                        *)
descend(b, o) ==
    LET page == tree_page(b, o.page)
        key == IF o.op = "scan" THEN o.start_key ELSE o.key
        child_offset ==
            IF o.op = "scan" /\ o.start_key = -1 THEN first_key_offset(page)
            ELSE binary_search_page(page, key, <<0, 0>>, FALSE)
        leaf_offset ==
            IF o.op = "scan" /\ o.start_key = -1 THEN first_key_offset(page)
            ELSE binary_search_page(page, key,
                                    IF o.op = "scan" THEN <<0, 0>> ELSE o.tuple.ptr,
                                    FALSE)
    IN  IF page_type(page) = "Leaf"
        THEN (IF o.op = "scan" THEN scan_page(b, o, o.page, leaf_offset)
              ELSE insert_into_page(b, [o EXCEPT !.offset = leaf_offset]))
        ELSE IF child_offset < 1 \/ child_offset > num_line_pointers(page)
        THEN op_end(b, o, "failed", "panic")
        ELSE [b |-> b,
              o |-> [o EXCEPT !.want = get_downlink(page.items[child_offset]),
                              !.pc = "page",
                              !.path = Append(@, <<o.page, child_offset>>)]]

(* get_root_page_write and get_root_page_read with the meta page latched:  *)
(* an insert creates the root when there is none; otherwise the meta page  *)
(* is released before the root is asked for                                *)
get_root_page(b, o) ==
    LET root_page_num == tree_page(b, BTREE_META_PAGE_NUM).root
        n == Len(b.idx)
        root == [BTreeNewPage EXCEPT !.flags = {"IS_LEAF", "IS_ROOT"}]
        logged(a) ==
            descend([a.b EXCEPT !.idx = Append([@ EXCEPT ![BTREE_META_PAGE_NUM + 1] =
                                                    [lsn |-> a.lsn, root |-> n]],
                                               [root EXCEPT !.lsn = a.lsn])],
                    [o EXCEPT !.held = {n}, !.page = n, !.want = -1])
    IN  IF root_page_num # 0
        THEN [b |-> b, o |-> [o EXCEPT !.held = {}, !.want = root_page_num,
                                       !.pc = "page"]]
        ELSE IF o.op = "scan" THEN op_end(b, o, "failed", "InvalidState")
        ELSE logged(btree_logged(b, [kind |-> "BTreeNewRoot",
                                     meta_page_num |-> BTREE_META_PAGE_NUM,
                                     root_page_num |-> n, level |-> 0,
                                     offset |-> 0, root_tuples |-> <<>>],
                                 BTreeNewRootLogLen))

(* The thread gets the latch it asked for and runs to the next one *)
acquired(b, o) ==
    LET walked(w) == IF w.hit THEN insert_into_page(w.b, w.o)
                     ELSE [b |-> w.b, o |-> w.o]
    IN  CASE o.pc = "meta" -> get_root_page(b, o)
          [] o.pc = "page" ->
                 descend(b, [o EXCEPT !.held = {o.want}, !.page = o.want,
                                      !.want = -1])
          [] o.pc = "sibling" -> split_finish(b, o, o.want)
          [] o.pc = "new_root" -> new_root(b, o)
          [] o.pc = "parent" -> walked(walk_up_path(b, o))
          [] o.pc = "next" -> scan_page(b, o, o.want, 0)

(* Index::insert and a forward scan as they start: the meta page is asked  *)
(* for first.  start_key = -1 is no start key.                             *)
begin_insert(key, item_pointer) ==
    [IdleOp EXCEPT !.op = "insert", !.pc = "meta", !.want = BTREE_META_PAGE_NUM,
                   !.key = key, !.tuple = IndexTuple(key, KeyLen, item_pointer)]

begin_scan(start_key, pred) ==
    [IdleOp EXCEPT !.op = "scan", !.pc = "meta", !.want = BTREE_META_PAGE_NUM,
                   !.start_key = start_key, !.pred = pred]

(* An operation run alone to its end *)
RECURSIVE run_alone(_, _)
run_alone(b, o) ==
    LET go(a) == run_alone(a.b, a.o)
    IN  IF o.want = -1 THEN [b |-> b, o |-> o] ELSE go(acquired(b, o))


(* ======================================================================= *)
(* Threads inserting into and scanning one index                           *)
(* ======================================================================= *)
MaxLatchOps == 3

(* the index after the keys of a sequence were inserted one after another  *)
RECURSIVE build_index(_, _, _)
build_index(b, keys, i) ==
    IF i > Len(keys) THEN b
    ELSE build_index(run_alone(b, begin_insert(keys[i], <<0, i>>)).b, keys, i + 1)

LatchTrees ==
    {build_index([idx |-> InitIndex, wal |-> InitStore.wal], keys, 1) :
        keys \in {<<>>, <<0, 0, 0, 0>>, <<1, 1, 1, 1>>, <<1, 1, 1, 1, 1, 1>>}}

InitLatch ==
    \E b \in LatchTrees :
        InitWith([kind |-> "latch", started |-> 0], b.idx,
                 [InitStore EXCEPT !.wal = b.wal])

(* a latch on page n can be taken by thread t: no other thread holds it,   *)
(* or t and the threads that hold it all read                              *)
can_latch(t, n) ==
    \A u \in XIDs \ {t} :
        n \in ops[u].held => (ops[u].op = "scan" /\ ops[t].op = "scan")

(* thread t waits for a latch that thread u holds *)
waits_for(t, u) ==
    /\ t # u
    /\ ops[t].want # -1
    /\ ops[t].want \in ops[u].held
    /\ ~(ops[u].op = "scan" /\ ops[t].op = "scan")

(* a thread calls Index::insert, or the first next() of a forward scan *)
LatchBegin(t) ==
    /\ unit.kind = "latch" /\ unit.started < MaxLatchOps
    /\ ops[t].want = -1
    /\ \E key \in 0..MaxKey, scan \in BOOLEAN, start_key \in -1..MaxKey :
           ops' = [ops EXCEPT ![t] =
                       IF scan THEN begin_scan(start_key, -1)
                       ELSE begin_insert(key, <<1, unit.started>>)]
    /\ unit' = [unit EXCEPT !.started = @ + 1]
    /\ UNCHANGED <<store, tm, txns, scans, proc, master, ckpt, hist, index>>

(* a thread gets the latch it waits for and runs up to the next one *)
LatchAcquire(t) ==
    /\ unit.kind = "latch"
    /\ ops[t].want # -1 /\ can_latch(t, ops[t].want)
    /\ LET got(a) ==
               /\ index' = a.b.idx
               /\ store' = [store EXCEPT !.wal = a.b.wal]
               /\ ops' = [ops EXCEPT ![t] = a.o]
       IN  got(acquired([idx |-> index, wal |-> store.wal], ops[t]))
    /\ UNCHANGED <<tm, txns, scans, proc, master, ckpt, hist, unit>>

NextLatch == \E t \in XIDs : LatchBegin(t) \/ LatchAcquire(t)

SpecLatch == InitLatch /\ [][NextLatch]_vars

(* C11: in no reachable state is there a set of threads each of which      *)
(* waits for a page latch that another thread of the set holds             *)
C11_NoLatchCycle ==
    ~\E S \in SUBSET XIDs \ {{}} :
        \A t \in S : \E u \in S : waits_for(t, u)


(* ======================================================================= *)
(* One thread inserting into an index                                      *)
(* ======================================================================= *)
InitBTree == InitUnit([kind |-> "btree", rows |-> 0, splits |-> {}, ok |-> TRUE])

(* the leaves of the index, by page number *)
Leaves == {n \in 1..(Len(index) - 1) : page_type(index[n + 1]) = "Leaf"}

(* the keys of a data page, the high key apart *)
KeysOf(p) == {p.items[i].key : i \in first_key_offset(p)..num_line_pointers(p)}

(* Index::insert of (key, row pointer); the rows are numbered as they come.*)
(* splits remembers where pages were split: a leaf that is leftmost,       *)
(* rightmost or between two leaves, and the root                           *)
BTreeInsert(key) ==
    /\ unit.kind = "btree" /\ unit.rows < MaxRows
    /\ LET before == index
           place(a) ==
               LET splitted == {n \in Leaves : a.b.idx[n + 1] # before[n + 1]
                                               /\ Len(a.b.idx) > Len(before)
                                               /\ a.b.idx[n + 1].next # before[n + 1].next}
                   where(n) == IF before[n + 1].prev = 0 /\ before[n + 1].next = 0
                               THEN "root"
                               ELSE IF before[n + 1].prev = 0 THEN "leftmost"
                               ELSE IF before[n + 1].next = 0 THEN "rightmost"
                               ELSE "middle"
               IN  {where(n) : n \in splitted}
                   \cup (IF a.b.idx[1].root # before[1].root /\ before[1].root # 0
                         THEN {"new_root"} ELSE {})
           done(a) ==
               /\ index' = a.b.idx
               /\ store' = [store EXCEPT !.wal = a.b.wal]
               /\ unit' = [unit EXCEPT !.rows = @ + 1,
                                       !.splits = @ \cup place(a),
                                       !.ok = @ /\ a.o.pc = "done"]
       IN  done(run_alone([idx |-> index, wal |-> store.wal],
                          begin_insert(key, <<0, unit.rows + 1>>)))
    /\ UNCHANGED <<tm, txns, scans, proc, master, ckpt, hist, ops>>

NextBTree == \E key \in 0..MaxKey : BTreeInsert(key)

SpecBTree == InitBTree /\ [][NextBTree]_vars

(* C10: after any sequence of inserts, every key of a leaf is at most      *)
(* every key of its right sibling, and at most the high key of the leaf    *)
(* when the leaf has one                                                   *)
C10_LeafOrder ==
    unit.kind = "btree" =>
        \A n \in Leaves :
            LET l == index[n + 1]
            IN  l.next # 0 =>
                    /\ \A k \in KeysOf(l) :
                           /\ k <= l.items[high_key_offset].key
                           /\ \A k2 \in KeysOf(index[l.next + 1]) : k <= k2
                    /\ l.next \in Leaves

(* an index whose inserts all succeeded, after splits of the root, of a    *)
(* leftmost, of a rightmost and of a middle leaf, with two different keys  *)
(* on neighbouring leaves                                                  *)
C10_Witness ==
    /\ unit.kind = "btree" /\ unit.ok
    /\ {"root", "new_root", "leftmost", "rightmost", "middle"} \subseteq unit.splits
    /\ \E n \in Leaves :
           /\ index[n + 1].next # 0
           /\ \E k \in KeysOf(index[n + 1]) :
                  \E k2 \in KeysOf(index[index[n + 1].next + 1]) : k < k2


(* ======================================================================= *)
(* Index scans over the rows of a table                                    *)
(* ======================================================================= *)
MaxScanRows == 7

(* Heap::fetch_tuple: the page is pinned, the tuple checked for visibility *)
(* and its hint bits installed; a visible tuple is handed out with the     *)
(* page pinned, for an invisible one the pin is not given back             *)
fetch_tuple(s, table, xid, snapshot, item_pointer) ==
    LET offset == item_pointer[2]
        checked(s1, slot, page, v) ==
            [ok |-> TRUE, slot |-> slot, valid |-> v.valid,
             s |-> IF v.new_flags # {}
                   THEN with_write(s1, slot,
                            [page EXCEPT !.items[offset].flags = @ \cup v.new_flags],
                            TRUE)
                   ELSE s1]
        fetched(f) ==
            IF ~f.ok THEN [ok |-> FALSE, slot |-> 0, valid |-> FALSE, s |-> f.s]
            ELSE checked(f.s, f.slot, page_of(f.s, f.slot),
                         is_visible(page_of(f.s, f.slot).items[offset], table,
                                    snapshot, xid))
    IN  fetched(fetch_page(s, item_pointer[1]))

(* IndexScanIterator::next called until it returns None: every item the    *)
(* index scan yields is fetched from the table, the visible ones are       *)
(* returned, each dropped by the caller before the next call               *)
RECURSIVE scan_next(_, _, _, _, _, _, _)
scan_next(s, table, xid, snapshot, items, i, returned) ==
    LET fetched(f) ==
            IF ~f.ok THEN [ok |-> FALSE, s |-> f.s, returned |-> returned]
            ELSE IF f.valid
            THEN scan_next(release_page(f.s, f.slot), table, xid, snapshot, items,
                           i + 1, Append(returned, items[i]))
            ELSE scan_next(f.s, table, xid, snapshot, items, i + 1, returned)
    IN  IF i > Len(items) THEN [ok |-> TRUE, s |-> s, returned |-> returned]
        ELSE fetched(fetch_tuple(s, table, xid, snapshot, items[i].ptr))

NoIndexScan ==
    [done |-> FALSE, ok |-> FALSE, xid |-> 0, start_key |-> -1, pred |-> -1,
     returned |-> <<>>, visible |-> {}]

InitIndexScan == InitUnit([kind |-> "iscan", rows |-> <<>>, scan |-> NoIndexScan])

(* Table::insert_tuple of a row, then Index::insert of its key with the    *)
(* pointer the table returned                                              *)
InsertRow(x, key) ==
    /\ unit.kind = "iscan" /\ ~unit.scan.done
    /\ txns[x].state = "active"
    /\ Cardinality({i \in 1..Len(unit.rows) : (unit.rows[i].xid = 1) = (x = 1)})
           < (IF x = 1 THEN MaxScanRows ELSE MaxOtherRows)
    /\ LET indexed(r, a) ==
               /\ a.o.pc = "done"
               /\ index' = a.b.idx
               /\ store' = [r.s EXCEPT !.wal = a.b.wal]
               /\ unit' = [unit EXCEPT !.rows = Append(@, [key |-> key, ptr |-> r.ptr,
                                                           xid |-> x])]
           stored(r) ==
               /\ r.ok
               /\ indexed(r, run_alone([idx |-> index, wal |-> r.s.wal],
                                       begin_insert(key, r.ptr)))
       IN  stored(insert_tuple(store,
                      prepare_heap_tuple_for_insert(Len(unit.rows) + 1, SmallLen, x),
                      x))
    /\ UNCHANGED <<tm, txns, scans, proc, master, ckpt, hist, ops>>

(* begin_scan, rescan(start_key, predicate) and next(Forward) to the end,  *)
(* by transaction x.  visible is the set of the rows that are visible to   *)
(* the snapshot of the scan as the scan begins.                            *)
IndexScan(x, start_key, pred) ==
    /\ unit.kind = "iscan" /\ ~unit.scan.done
    /\ txns[x].state = "active"
    /\ LET snapshot == get_snapshot(tm, txns[x], x)
           tuple_at(ptr) ==
               LET slot == page_hash(store, ptr[1])
               IN  IF slot # 0 THEN page_of(store, slot).items[ptr[2]]
                   ELSE store.file[ptr[1] + 1].items[ptr[2]]
           visible ==
               {i \in 1..Len(unit.rows) :
                   is_visible(tuple_at(unit.rows[i].ptr), tm.table, snapshot, x).valid}
           ended(o, r) ==
               /\ store' = r.s
               /\ unit' = [unit EXCEPT !.scan =
                              [done |-> TRUE, ok |-> o.pc = "done" /\ r.ok, xid |-> x,
                               start_key |-> start_key, pred |-> pred,
                               returned |-> r.returned, visible |-> visible]]
           scanned(o) ==
               ended(o, scan_next(store, tm.table, x, snapshot, o.returned, 1, <<>>))
       IN  scanned(run_alone([idx |-> index, wal |-> store.wal],
                             begin_scan(start_key, pred)).o)
    /\ txns' = [txns EXCEPT ![x].has_snapshot = TRUE,
                            ![x].current_snapshot = get_snapshot(tm, txns[x], x)]
    /\ UNCHANGED <<tm, scans, proc, master, ckpt, hist, index, ops>>

NextIndexScan ==
    \E x \in XIDs :
        \/ AllocXid(x, ReadCommitted)
        \/ RegisterXid(x)
        \/ CommitLog(x)
        \/ CommitEnd(x)
        \/ \E key \in 0..MaxKey : InsertRow(x, key)
        \/ \E start_key \in {-1, MaxKey}, pred \in {-1, 0} : IndexScan(x, start_key, pred)

SpecIndexScan == InitIndexScan /\ [][NextIndexScan]_vars

(* the rows a scan has to return: the visible rows whose key satisfies the *)
(* predicate and is not below the start key                                *)
Expected ==
    {unit.rows[i].ptr : i \in {j \in unit.scan.visible :
                                   /\ unit.rows[j].key > unit.scan.pred
                                   /\ unit.rows[j].key >= unit.scan.start_key}}

(* C9: a forward scan run to its end returns exactly the visible rows      *)
(* whose key satisfies the predicate, each once, in non-decreasing order   *)
(* of the keys                                                             *)
C9_ScanExact ==
    (unit.kind = "iscan" /\ unit.scan.done /\ unit.scan.start_key = -1
        /\ unit.rows # <<>>) =>
        LET returned == unit.scan.returned
        IN  /\ unit.scan.ok
            /\ {returned[i].ptr : i \in 1..Len(returned)} = Expected
            /\ \A i, j \in 1..Len(returned) :
                   /\ i < j => returned[i].key <= returned[j].key
                   /\ i # j => returned[i].ptr # returned[j].ptr


(* C21: with concurrent inserts, the leaf an insert puts its key on covers *)
(* the key (the key is at most the high key, or the leaf is rightmost),    *)
(* and no insert fails to find the downlink of a page it has split         *)
C21_InsertCovered ==
    unit.kind = "latch" =>
        \A t \in XIDs :
            ops[t].op = "insert" =>
                /\ ops[t].placed.covered
                /\ ops[t].err \notin {"panic", "DataCorrupted"}


(* ---- snapshots against the start of transactions ---- *)
(* (concurrency/transaction_manager.rs)  A run of the transaction manager  *)
(* alone: start_transaction takes the lock of next_xid and then, after     *)
(* releasing it, the lock of the snapshot data.                            *)
MaxSnapXid == 3

SnapXids == 1..MaxSnapXid

InitSnap ==
    InitUnit([kind |-> "snap",
              state |-> [x \in SnapXids |-> "none"],
              taken |-> [x \in SnapXids |-> FALSE],
              snap |-> [x \in SnapXids |-> NoSnapshot],
              open |-> [x \in SnapXids |-> {}]])

(* start_transaction, first half: get_next_xid *)
SnapAlloc(x) ==
    /\ unit.kind = "snap" /\ x = tm.next_xid /\ unit.state[x] = "none"
    /\ tm' = [tm EXCEPT !.next_xid = inc(@)]
    /\ unit' = [unit EXCEPT !.state[x] = "allocated"]
    /\ UNCHANGED <<store, txns, scans, proc, master, ckpt, hist, index, ops>>

(* start_transaction, second half: the XID enters the active set *)
SnapRegister(x) ==
    /\ unit.kind = "snap" /\ unit.state[x] = "allocated"
    /\ tm' = [tm EXCEPT !.active_xids = @ \cup {x}]
    /\ unit' = [unit EXCEPT !.state[x] = "active"]
    /\ UNCHANGED <<store, txns, scans, proc, master, ckpt, hist, index, ops>>

(* commit_transaction up to the status update *)
SnapCommitStatus(x) ==
    /\ unit.kind = "snap" /\ unit.state[x] = "active"
    /\ unit' = [unit EXCEPT !.state[x] = "logged"]
    /\ UNCHANGED <<store, tm, txns, scans, proc, master, ckpt, hist, index, ops>>

(* ... and mark_transaction_end *)
SnapCommitEnd(x) ==
    /\ unit.kind = "snap" /\ unit.state[x] = "logged"
    /\ tm' = mark_transaction_end(tm, x)
    /\ unit' = [unit EXCEPT !.state[x] = "ended"]
    /\ UNCHANGED <<store, txns, scans, proc, master, ckpt, hist, index, ops>>

(* get_snapshot of a read-committed transaction; open remembers the XIDs   *)
(* that were allocated and had not committed when the snapshot was taken   *)
SnapRecord(z) ==
    /\ unit.kind = "snap" /\ unit.state[z] = "active"
    /\ unit' = [unit EXCEPT
           !.taken[z] = TRUE,
           !.snap[z] = record_snapshot(tm.active_xids, tm.latest_completed_xid, z),
           !.open[z] = {x \in SnapXids : unit.state[x] \in {"allocated", "active"}}]
    /\ UNCHANGED <<store, tm, txns, scans, proc, master, ckpt, hist, index, ops>>

NextSnap ==
    \/ \E x \in SnapXids : SnapAlloc(x)
    \/ \E x \in SnapXids : SnapRegister(x)
    \/ \E x \in SnapXids : SnapCommitStatus(x)
    \/ \E x \in SnapXids : SnapCommitEnd(x)
    \/ \E x \in SnapXids : SnapRecord(x)

SpecSnap == InitSnap /\ [][NextSnap]_vars

(* C22: a snapshot regards as in progress every XID, other than its        *)
(* owner's, that was allocated to a transaction which had not committed    *)
(* when the snapshot was recorded                                          *)
C22_SnapshotCoversOpen ==
    unit.kind = "snap" =>
        \A z \in SnapXids :
            unit.taken[z] =>
                \A x \in unit.open[z] \ {z} : is_xid_in_progress(unit.snap[z], x)


(* ---- the buffer-cache mutex against the page latches ---- *)
(* (storage/buffer_manager.rs, storage/page_cache.rs, storage/mod.rs)      *)
(* Getting a tree page is three steps: BufferManager::fetch_page locks the *)
(* page cache; PageCache::fetch_page pins the page under the page's write  *)
(* lock and the cache is unlocked; the caller then latches the page.       *)
InitPin ==
    \E b \in LatchTrees :
        InitWith([kind |-> "pin", started |-> 0, mutex |-> 0,
                  phase |-> [t \in XIDs |-> "fetch"]], b.idx,
                 [InitStore EXCEPT !.wal = b.wal])

(* thread t waits for the cache mutex or for a page lock that u holds *)
pin_waits_for(t, u) ==
    /\ t # u
    /\ ops[t].want # -1
    /\ CASE unit.phase[t] = "fetch" -> unit.mutex = u
         [] unit.phase[t] = "pin" -> ops[t].want \in ops[u].held
         [] OTHER -> waits_for(t, u)

PinBegin(t) ==
    /\ unit.kind = "pin" /\ unit.started < MaxLatchOps
    /\ ops[t].want = -1
    /\ \E key \in 0..MaxKey, scan \in BOOLEAN, start_key \in -1..MaxKey :
           ops' = [ops EXCEPT ![t] =
                       IF scan THEN begin_scan(start_key, -1)
                       ELSE begin_insert(key, <<1, unit.started>>)]
    /\ unit' = [unit EXCEPT !.started = @ + 1, !.phase[t] = "fetch"]
    /\ UNCHANGED <<store, tm, txns, scans, proc, master, ckpt, hist, index>>

(* BufferManager::fetch_page: page_cache.lock() *)
PinLock(t) ==
    /\ unit.kind = "pin"
    /\ ops[t].want # -1 /\ unit.phase[t] = "fetch" /\ unit.mutex = 0
    /\ unit' = [unit EXCEPT !.mutex = t, !.phase[t] = "pin"]
    /\ UNCHANGED <<store, tm, txns, scans, proc, master, ckpt, hist, index, ops>>

(* PageCache::fetch_page: PagePtr::pin takes the write lock of the page,   *)
(* counts the pin and drops the lock; fetch_page returns, the cache is     *)
(* unlocked                                                                *)
PinPage(t) ==
    /\ unit.kind = "pin"
    /\ unit.phase[t] = "pin" /\ unit.mutex = t
    /\ \A u \in XIDs \ {t} : ops[t].want \notin ops[u].held
    /\ unit' = [unit EXCEPT !.mutex = 0, !.phase[t] = "latch"]
    /\ UNCHANGED <<store, tm, txns, scans, proc, master, ckpt, hist, index, ops>>

(* owning_page_read_lock / owning_page_write_lock, and the operation runs  *)
(* up to the next page it asks for                                         *)
PinLatch(t) ==
    /\ unit.kind = "pin"
    /\ ops[t].want # -1 /\ unit.phase[t] = "latch" /\ can_latch(t, ops[t].want)
    /\ LET got(a) ==
               /\ index' = a.b.idx
               /\ store' = [store EXCEPT !.wal = a.b.wal]
               /\ ops' = [ops EXCEPT ![t] = a.o]
       IN  got(acquired([idx |-> index, wal |-> store.wal], ops[t]))
    /\ unit' = [unit EXCEPT !.phase[t] = "fetch"]
    /\ UNCHANGED <<tm, txns, scans, proc, master, ckpt, hist>>

NextPin ==
    \E t \in XIDs : PinBegin(t) \/ PinLock(t) \/ PinPage(t) \/ PinLatch(t)

SpecPin == InitPin /\ [][NextPin]_vars

(* C23: in no reachable state is there a set of threads, one of which      *)
(* holds the buffer-cache mutex, each waiting for the mutex or for a page  *)
(* lock that another thread of the set holds                               *)
C23_NoMutexLatchCycle ==
    unit.kind = "pin" =>
        ~\E S \in SUBSET XIDs \ {{}} :
            /\ \E t \in S : unit.mutex = t
            /\ \A t \in S : \E u \in S : pin_waits_for(t, u)


(* ---- the XID counter across restarts (SpecRecovery) ---- *)
(* the XIDs of the records a reader finds in the log files from pos on *)
RECURSIVE wal_xids(_, _)
wal_xids(files, pos) ==
    LET read(r) ==
            IF r.tag # "rec" THEN {}
            ELSE (IF is_invalid(r.rec.xid) THEN {} ELSE {r.rec.xid})
                 \cup wal_xids(files, r.pos)
    IN  read(reader_read_record(files, pos))

RECURSIVE wal_commits(_, _, _)
wal_commits(files, pos, limit) ==
    LET read(r) ==
            IF r.tag # "rec" \/ r.pos > limit THEN {}
            ELSE (IF r.rec.kind = "Commit" THEN {r.rec.xid} ELSE {})
                 \cup wal_commits(files, r.pos, limit)
    IN  read(reader_read_record(files, pos))

(* C25: after a restart the status table reports Committed for every       *)
(* transaction whose commit record lies below the redo position of the     *)
(* checkpoint the master record names                                      *)
C25_CommittedBelowRedo ==
    proc = "running" /\ hist.crashes > 0 /\ master.last_checkpoint_pos > 0 =>
        LET files == wal_files(store.wal)
            c == read_checkpoint_record(files, master.last_checkpoint_pos)
        IN  c.ok /\ c.some =>
                \A x \in wal_commits(files, 0, c.log.redo_pos) :
                    tm.table[x] = "Committed"


(* ---- the index across a crash ---- *)
(* (am/btree.rs, am/btree/btree_log.rs)  A run of one index: inserts, the  *)
(* flush of the log that a commit makes, writes of index pages to the      *)
(* file, then a kill, the redo of the log and a forward scan.  unit.disk   *)
(* is the index file: a new page is in it as zeros from its allocation on. *)
MaxIndexRows == 6

InitIndexCrash ==
    InitUnit([kind |-> "icrash", phase |-> "running", rows |-> <<>>,
              durable |-> 0, disk |-> InitIndex, ok |-> TRUE,
              returned |-> <<>>])

(* Index::insert of (key, row pointer) by one thread *)
CrashInsert(key) ==
    /\ unit.kind = "icrash" /\ unit.phase = "running"
    /\ Len(unit.rows) < MaxIndexRows
    /\ LET ptr == <<0, Len(unit.rows) + 1>>
           done(a) ==
               /\ a.o.pc = "done"
               /\ index' = a.b.idx
               /\ store' = [store EXCEPT !.wal = a.b.wal]
               /\ unit' = [unit EXCEPT
                      !.rows = Append(@, [key |-> key, ptr |-> ptr]),
                      !.disk = @ \o [i \in 1..(Len(a.b.idx) - Len(@)) |->
                                        ZeroIndexPage]]
       IN  done(run_alone([idx |-> index, wal |-> store.wal],
                          begin_insert(key, ptr)))
    /\ UNCHANGED <<tm, txns, scans, proc, master, ckpt, hist, ops>>

(* the flush of the log in commit_transaction: the inserts so far are      *)
(* those of committed transactions                                         *)
CrashCommit ==
    /\ unit.kind = "icrash" /\ unit.phase = "running"
    /\ unit.durable < Len(unit.rows)
    /\ store' = [store EXCEPT !.wal = wal_flush(@, current_lsn(store.wal.seg))]
    /\ unit' = [unit EXCEPT !.durable = Len(unit.rows)]
    /\ UNCHANGED <<tm, txns, scans, proc, master, ckpt, hist, index, ops>>

(* PageCache::flush_page of index page n: the log is flushed to the LSN of *)
(* the page, the page is written                                           *)
CrashWritePage(n) ==
    /\ unit.kind = "icrash" /\ unit.phase = "running"
    /\ n \in 1..Len(index) /\ unit.disk[n] # index[n]
    /\ store' = [store EXCEPT !.wal = wal_flush(@, index[n].lsn)]
    /\ unit' = [unit EXCEPT !.disk[n] = index[n]]
    /\ UNCHANGED <<tm, txns, scans, proc, master, ckpt, hist, index, ops>>

(* the process is killed: the cache and the unflushed log are lost *)
CrashKill ==
    /\ unit.kind = "icrash" /\ unit.phase = "running" /\ unit.durable > 0
    /\ index' = unit.disk
    /\ store' = [store EXCEPT
           !.wal.seg.chunks = {c \in @ : c.off + RECORD_HEADER_SIZE + c.len
                                            <= store.wal.seg.size}]
    /\ unit' = [unit EXCEPT !.phase = "down"]
    /\ UNCHANGED <<tm, txns, scans, proc, master, ckpt, hist, ops>>

(* the redo loop over the B-tree records of the log files from pos on *)
RECURSIVE index_redo(_, _, _)
index_redo(idx, files, pos) ==
    LET applied(r, a) == IF ~a.ok THEN a ELSE index_redo(a.idx, files, r.pos)
        read(r) ==
            IF r.tag = "none" THEN [ok |-> TRUE, idx |-> idx]
            ELSE IF r.tag = "err" THEN [ok |-> FALSE, idx |-> idx]
            ELSE IF r.rec.kind = "BTreeInsert"
            THEN applied(r, btree_insert_apply(idx, r.rec, r.pos))
            ELSE IF r.rec.kind = "BTreeNewRoot"
            THEN applied(r, btree_new_root_apply(idx, r.rec, r.pos))
            ELSE index_redo(idx, files, r.pos)
    IN  read(reader_read_record(files, pos))

(* DB::open: no checkpoint was taken, the redo starts at position 0 *)
CrashRecover ==
    /\ unit.kind = "icrash" /\ unit.phase = "down"
    /\ LET replayed(o, r) ==
               /\ index' = r.idx
               /\ store' = [store EXCEPT !.wal.seg = o.seg]
               /\ unit' = [unit EXCEPT !.phase = "up", !.ok = o.ok /\ r.ok]
           opened(o) ==
               replayed(o, index_redo(index,
                                      wal_files([store.wal EXCEPT !.seg = o.seg]), 0))
       IN  opened(segment_open(store.wal.seg))
    /\ UNCHANGED <<tm, txns, scans, proc, master, ckpt, hist, ops>>

(* a forward scan of the whole index, run to its end *)
CrashScan ==
    /\ unit.kind = "icrash" /\ unit.phase = "up" /\ unit.ok
    /\ LET ended(a) ==
               unit' = [unit EXCEPT !.phase = "scanned", !.ok = a.o.pc = "done",
                                    !.returned = a.o.returned]
       IN  ended(run_alone([idx |-> index, wal |-> store.wal], begin_scan(-1, -1)))
    /\ UNCHANGED <<store, tm, txns, scans, proc, master, ckpt, hist, index, ops>>

NextIndexCrash ==
    \/ \E key \in 0..MaxKey : CrashInsert(key)
    \/ CrashCommit
    \/ \E n \in 1..(MaxIndexRows + 1) : CrashWritePage(n)
    \/ CrashKill
    \/ CrashRecover
    \/ CrashScan

SpecIndexCrash == InitIndexCrash /\ [][NextIndexCrash]_vars

(* C26: after a kill and a redo of the log that succeeded, a forward scan  *)
(* of the index ends without error and returns every entry whose insert    *)
(* had returned and whose log records had been flushed before the kill     *)
C26_RedoRebuildsIndex ==
    unit.kind = "icrash" /\ unit.phase = "scanned" =>
        /\ unit.ok
        /\ \A i \in 1..unit.durable :
               \E j \in 1..Len(unit.returned) :
                   unit.returned[j].ptr = unit.rows[i].ptr


(* ---- the order of a commit (Spec) ---- *)
(* the chunks of the commit record of x in the open segment *)
CommitChunks(x) ==
    {c \in store.wal.seg.chunks : c.rec.kind = "Commit" /\ c.rec.xid = x}

(* x has a commit record in a closed segment file *)
CommitClosed(x) ==
    \E i \in 1..Len(store.wal.closed) :
        \E c \in store.wal.closed[i].chunks : c.rec.kind = "Commit" /\ c.rec.xid = x

(* C27: whenever the status table reports x as Committed, the commit       *)
(* record of x and every record appended before it are in the log file;    *)
(* a transaction leaves the active set and becomes the latest completed    *)
(* only after its status is Committed                                      *)
C27_CommittedIsFlushed ==
    \A x \in XIDs :
        /\ tm.table[x] = "Committed" =>
               /\ CommitClosed(x) \/ CommitChunks(x) # {}
               /\ \A c \in CommitChunks(x) : \A d \in store.wal.seg.chunks :
                      d.off <= c.off =>
                          d.off + RECORD_HEADER_SIZE + d.len <= store.wal.seg.size
        /\ txns[x].state = "ended" =>
               /\ tm.table[x] = "Committed" /\ x \notin tm.active_xids
               /\ cmp(tm.latest_completed_xid, x) >= 0
        /\ txns[x].state = "logged" => x \in tm.active_xids

(* A transaction is committed whose commit record follows, in the open     *)
(* segment, a heap record of a transaction that has not committed          *)
C27_Witness ==
    \E x \in XIDs : \E y \in XIDs \ {x} :
        /\ tm.table[x] = "Committed" /\ tm.table[y] # "Committed"
        /\ \E c \in CommitChunks(x), d \in store.wal.seg.chunks :
               d.rec.kind = "HeapInsert" /\ d.rec.xid = y /\ d.off < c.off


(* ---- the master record (SpecRecovery) ---- *)
(* the heap records that end at or below limit in the log files, each with *)
(* the page it changed and its LSN                                         *)
RECURSIVE heap_records(_, _, _)
heap_records(files, pos, limit) ==
    LET read(r) ==
            IF r.tag # "rec" \/ r.pos > limit THEN {}
            ELSE (IF r.rec.kind = "HeapInsert"
                  THEN {[page_num |-> r.rec.page_num, lsn |-> r.pos]} ELSE {})
                 \cup heap_records(files, r.pos, limit)
    IN  read(reader_read_record(files, pos))

(* C28: the position in the master record is that of a Checkpoint record   *)
(* in the log files, every page change logged below the redo position of   *)
(* that record is in the relation file, and the restart after a kill       *)
(* inside create_checkpoint succeeds                                       *)
C28_MasterRecordSound ==
    /\ master.last_checkpoint_pos > 0 =>
           LET files == wal_files(store.wal)
               c == read_checkpoint_record(files, master.last_checkpoint_pos)
           IN  /\ c.ok /\ c.some
               /\ \A h \in heap_records(files, 0, c.log.redo_pos) :
                      /\ h.page_num < Len(store.file)
                      /\ store.file[h.page_num + 1].lsn >= h.lsn
    /\ hist.in_checkpoint => proc # "failed"


(* ---- the LSN test of the redo (SpecRedo) ---- *)
(* heap page num of a store: the cached copy, else the one in the file *)
HeapPageOf(s, num) ==
    LET slots == {i \in 1..Len(s.pool) : s.pool[i].num = num}
    IN  IF slots # {} THEN s.pool[CHOOSE i \in slots : TRUE].page
        ELSE s.file[num + 1]

(* C29: the redo of a record with LSN L changes a heap page, a B-tree data *)
(* page or the B-tree meta page only if L is above the LSN of the page,    *)
(* and leaves no page with a lower LSN than it had                         *)
C29_RedoLsnGuard ==
    (unit.kind = "redo" /\ unit.done) =>
        /\ \A n \in 1..Len(unit.db.idx) :
               /\ unit.once.idx[n].lsn >= unit.db.idx[n].lsn
               /\ unit.once.idx[n] # unit.db.idx[n] => unit.lsn > unit.db.idx[n].lsn
        /\ \A num \in 0..(Len(unit.db.store.file) - 1) :
               /\ HeapPageOf(unit.once.store, num).lsn
                      >= HeapPageOf(unit.db.store, num).lsn
               /\ HeapPageOf(unit.once.store, num) # HeapPageOf(unit.db.store, num)
                      => unit.lsn > HeapPageOf(unit.db.store, num).lsn


(* ---- the capacity of a log segment (SpecWal) ---- *)
(* C30: no segment, closed or open, holds more than the capacity, in the   *)
(* file or with the page in memory, and the capacity test of an append     *)
(* never underflows (no append panics)                                     *)
C30_SegmentWithinCapacity ==
    unit.kind = "wal" =>
        /\ proc # "panicked"
        /\ \A i \in 1..Len(store.wal.closed) : store.wal.closed[i].size <= Capacity
        /\ store.wal.seg.size <= Capacity
        /\ store.wal.seg.page_start + store.wal.seg.page_allocated <= Capacity

(* ======================================================================= *)
(* HeapTuple::is_visible on its own: every combination of hint flags,      *)
(* insert and delete XIDs, snapshot, status table and scanning XID         *)
(* ======================================================================= *)
HintFlags ==
    {"MIN_XID_COMMITTED", "MIN_XID_INVALID", "MAX_XID_COMMITTED", "MAX_XID_INVALID"}

Snapshots ==
    {s \in [min_xid : 1..(MaxXid + 1), max_xid : 1..(MaxXid + 1),
            xips : SUBSET XIDs] :
        /\ s.min_xid <= s.max_xid
        /\ \A x \in s.xips : s.min_xid <= x /\ x < s.max_xid}

StatusTables ==
    {t \in [0..MaxXid -> {"InProgress", "Committed", "Aborted"}] :
        t[0] = "InProgress"}

InitVisible ==
    \E flags \in SUBSET HintFlags, min_xid \in 0..MaxXid, max_xid \in 0..MaxXid,
       s \in Snapshots, current_xid \in XIDs, t \in StatusTables :
        InitUnit([kind |-> "visible",
                  tuple |-> [HeapTuple(1, SmallLen, min_xid, flags)
                                EXCEPT !.max_xid = max_xid],
                  snapshot |-> s, current_xid |-> current_xid, table |-> t,
                  done |-> FALSE, valid |-> FALSE, new_flags |-> {}])

IsVisible ==
    /\ unit.kind = "visible" /\ ~unit.done
    /\ LET r == is_visible(unit.tuple, unit.table, unit.snapshot, unit.current_xid)
       IN  unit' = [unit EXCEPT !.done = TRUE, !.valid = r.valid,
                                !.new_flags = r.new_flags]
    /\ UNCHANGED <<store, tm, txns, scans, proc, master, ckpt, hist, index, ops>>

NextVisible == IsVisible

SpecVisible == InitVisible /\ [][NextVisible]_vars

(* The decision rule, step by step: the answer for a tuple, a snapshot, a  *)
(* status table and the XID of the scanning transaction                    *)
visible_rule(tup, table, snapshot, self) ==
    LET max_invalid == "MAX_XID_INVALID" \in tup.flags
        committed(x) == table[x] = "Committed"
        deleted ==
            IF max_invalid THEN FALSE
            ELSE IF "MAX_XID_COMMITTED" \notin tup.flags
            THEN (IF tup.max_xid = self THEN TRUE
                  ELSE IF is_xid_in_progress(snapshot, tup.max_xid) THEN FALSE
                  ELSE committed(tup.max_xid))
            ELSE ~is_xid_in_progress(snapshot, tup.max_xid)
    IN  IF "MIN_XID_COMMITTED" \notin tup.flags
        THEN (IF tup.min_xid = 0 THEN FALSE
              ELSE IF tup.min_xid = self
              THEN max_invalid \/ tup.max_xid # self
              ELSE IF is_xid_in_progress(snapshot, tup.min_xid) THEN FALSE
              ELSE IF ~committed(tup.min_xid) THEN FALSE
              ELSE ~deleted)
        ELSE IF is_xid_in_progress(snapshot, tup.min_xid) THEN FALSE
        ELSE ~deleted

MaxInserts == 3
MaxFrames == 2

IdleInsert ==
    [pc |-> "idle", target |-> -1, slot |-> 0, tuple |-> HeapTuple(0, 0, 0, {}),
     ptr |-> <<0, 0>>, outcome |-> "none"]

(* One step of Heap::with_page_for_tuple for the call o of transaction x,  *)
(* with the closure of insert_tuple.  A call that fails returns at once.   *)
with_page_for_tuple(s, o, x) ==
    LET goto(s1, o1, pc) == [s |-> s1, o |-> [o1 EXCEPT !.pc = pc]]
        return(s1, o1, outcome) ==
            [s |-> s1, o |-> [o1 EXCEPT !.pc = "idle", !.outcome = outcome]]
        pinned(a, pc) ==
            IF ~a.ok THEN return(s, o, "OutOfMemory")
            ELSE goto(a.s, [o EXCEPT !.slot = a.slot], pc)
        closure(page, pc) ==
            LET c == insert_closure(s, o.slot, page, o.tuple, x)
            IN  IF c.outcome # "Ok" THEN return(c.s, o, c.outcome)
                ELSE goto(c.s, [o EXCEPT !.ptr = c.ptr], pc)
        on_hint(p0, p1) ==
            IF p1.upper < p1.lower THEN return(s, o, "underflow")
            ELSE IF get_free_space(p1) >= o.tuple.len
            THEN closure(p1, "release")
            ELSE goto(with_write(s, o.slot, p1,
                                 s.pool[o.slot].dirty \/ is_new(p0)),
                      [o EXCEPT !.ptr = <<0, 0>>], "release")
    IN  CASE o.pc = "hint" ->
               IF o.target = -1 THEN goto(s, o, "extend")
               ELSE pinned(fetch_page(s, o.target), "page")
          [] o.pc = "page" ->
               on_hint(page_of(s, o.slot),
                       IF is_new(page_of(s, o.slot))
                       THEN init_item_page(page_of(s, o.slot))
                       ELSE page_of(s, o.slot))
          [] o.pc = "release" ->
               goto(release_page(s, o.slot), o,
                    IF o.ptr = <<0, 0>> THEN "extend" ELSE "set_hint")
          [] o.pc = "extend" -> pinned(new_page(s), "new")
          [] o.pc = "new" ->
               closure(init_item_page(page_of(s, o.slot)), "release")
          [] o.pc = "set_hint" ->
               return([s EXCEPT !.hint = o.ptr[1]], o, "Ok")

InitInsert ==
    \E frames \in 1..MaxFrames :
        InitWith([kind |-> "insert", n |-> 0, returned |-> <<>>,
                  call |-> [x \in XIDs |-> IdleInsert]],
                 InitIndex, [InitStore EXCEPT !.cache_capacity = frames])

(* Heap::insert_tuple is called: the tuple is built and the hint is read *)
InsertCall(x, len) ==
    /\ unit.kind = "insert" /\ unit.call[x].pc = "idle" /\ unit.n < MaxInserts
    /\ unit' = [unit EXCEPT
           !.n = @ + 1,
           !.call[x] = [IdleInsert EXCEPT
               !.pc = "hint", !.target = store.hint,
               !.tuple = prepare_heap_tuple_for_insert(unit.n + 1, len, x)]]
    /\ UNCHANGED <<store, tm, txns, scans, proc, master, ckpt, hist, index, ops>>

(* The call of x takes its next step; an item pointer it returns is noted *)
InsertStep(x) ==
    /\ unit.kind = "insert" /\ unit.call[x].pc # "idle"
    /\ LET r == with_page_for_tuple(store, unit.call[x], x)
       IN  /\ store' = r.s
           /\ unit' = [unit EXCEPT
                  !.call[x] = r.o,
                  !.returned = IF r.o.pc = "idle" /\ r.o.outcome = "Ok"
                               THEN Append(@, [ptr |-> r.o.ptr, tuple |-> r.o.tuple])
                               ELSE @]
    /\ UNCHANGED <<tm, txns, scans, proc, master, ckpt, hist, index, ops>>

NextInsert ==
    \/ \E x \in XIDs, len \in TupleLens : InsertCall(x, len)
    \/ \E x \in XIDs : InsertStep(x)

SpecInsert == InitInsert /\ [][NextInsert]_vars

(* C32: the item pointers that concurrent insert_tuple calls returned are  *)
(* pairwise distinct, and the heap page of each holds at that offset the   *)
(* tuple that was inserted, whole: no insert overwrites or loses the tuple *)
(* of another                                                              *)
C32_InsertsDistinctAndIntact ==
    unit.kind = "insert" =>
        /\ \A i, j \in 1..Len(unit.returned) :
               i # j => unit.returned[i].ptr # unit.returned[j].ptr
        /\ \A i \in 1..Len(unit.returned) :
               LET r == unit.returned[i]
                   page == HeapPageOf(store, r.ptr[1])
               IN  /\ r.ptr[1] < Len(store.file)
                   /\ r.ptr[2] <= Len(page.items)
                   /\ page.items[r.ptr[2]] = r.tuple

(* two calls that extended the heap at the same time, and a third that     *)
(* read the hint while another call was inside the page                    *)
C32_Witness ==
    /\ unit.kind = "insert" /\ Len(unit.returned) = MaxInserts
    /\ \E i, j \in 1..MaxInserts :
           /\ i # j
           /\ unit.returned[i].ptr[1] # unit.returned[j].ptr[1]
           /\ unit.returned[i].tuple.min_xid # unit.returned[j].tuple.min_xid
    /\ \E i, j \in 1..MaxInserts :
           /\ i # j
           /\ unit.returned[i].ptr[1] = unit.returned[j].ptr[1]
           /\ unit.returned[i].tuple.min_xid # unit.returned[j].tuple.min_xid

(* ---- pins across a scan (SpecIndexScan) ---- *)
(* C33: no pin is leaked: no frame is pinned before the index scan, and    *)
(* once the scan has run to exhaustion, each Table::fetch_tuple of it has  *)
(* returned and every tuple handed out has been dropped, the pin count of  *)
(* every frame is what it was before, 0                                    *)
C33_NoPinLeaked ==
    unit.kind = "iscan" =>
        \A i \in 1..Len(store.pool) : store.pool[i].pin_count = 0

(* ======================================================================= *)
(* The buffer cache on its own: threads fetch, create, write and release   *)
(* pages and run sync_pages, one step per hold of the cache mutex or of a  *)
(* page lock.  A fetch may name the page just past the end of the file.    *)
(* ======================================================================= *)
MaxWrites == 3

IdleCache == [slot |-> 0, fresh |-> FALSE, pages |-> <<>>, flushed |-> FALSE]

(* the buffer with the content of the v-th write *)
Content(v) == [ZeroPage EXCEPT !.items = <<v>>]

InitCache ==
    \E frames \in 1..MaxFrames :
        InitWith([kind |-> "cache", th |-> [x \in XIDs |-> IdleCache],
                  writes |-> 0, last |-> [n \in 0..MaxPages |-> 0],
                  failed |-> "none"],
                 InitIndex, [InitStore EXCEPT !.cache_capacity = frames])

CacheIdle(x) ==
    /\ unit.kind = "cache"
    /\ unit.th[x].slot = 0 /\ unit.th[x].pages = <<>>

(* The outcome r of fetch_page or new_page for thread x *)
CacheReturned(x, r, fresh, call) ==
    /\ store' = r.s
    /\ unit' = IF r.ok
               THEN [unit EXCEPT !.th[x].slot = r.slot, !.th[x].fresh = fresh]
               ELSE [unit EXCEPT !.failed = call]
    /\ UNCHANGED <<tm, txns, scans, proc, master, ckpt, hist, index, ops>>

(* BufferManager::fetch_page of page num *)
CacheFetch(x, num) ==
    /\ CacheIdle(x) /\ num <= Len(store.file)
    /\ CacheReturned(x, fetch_page(store, num), FALSE, "fetch_page")

(* BufferManager::new_page *)
CacheNew(x) ==
    /\ CacheIdle(x) /\ Len(store.file) < MaxPages
    /\ CacheReturned(x, new_page(store), TRUE, "new_page")

(* The holder of a pinned page writes its buffer and marks it dirty *)
CacheWrite(x) ==
    /\ unit.kind = "cache" /\ unit.th[x].slot # 0 /\ unit.writes < MaxWrites
    /\ store' = with_write(store, unit.th[x].slot, Content(unit.writes + 1), TRUE)
    /\ unit' = [unit EXCEPT !.writes = @ + 1, !.th[x].fresh = FALSE,
                            !.last[store.pool[unit.th[x].slot].num] = unit.writes + 1]
    /\ UNCHANGED <<tm, txns, scans, proc, master, ckpt, hist, index, ops>>

(* BufferManager::release_page; the creator of a page writes it first *)
CacheRelease(x) ==
    /\ unit.kind = "cache" /\ unit.th[x].slot # 0 /\ ~unit.th[x].fresh
    /\ store' = release_page(store, unit.th[x].slot)
    /\ unit' = [unit EXCEPT !.th[x].slot = 0]
    /\ UNCHANGED <<tm, txns, scans, proc, master, ckpt, hist, index, ops>>

(* BufferManager::sync_pages, up to the release of the cache mutex *)
SyncPages(x) ==
    /\ CacheIdle(x)
    /\ LET d == get_dirty_pages(store, 1)
       IN  /\ d.pages # <<>>
           /\ store' = d.s
           /\ unit' = [unit EXCEPT !.th[x].pages = d.pages]
    /\ UNCHANGED <<tm, txns, scans, proc, master, ckpt, hist, index, ops>>

(* The loop of sync_pages: flush_page under the write lock of the page,    *)
(* then release_page under the cache mutex                                 *)
SyncStep(x) ==
    /\ unit.kind = "cache" /\ unit.th[x].pages # <<>>
    /\ IF ~unit.th[x].flushed
       THEN /\ store' = cache_flush_page(store, Head(unit.th[x].pages))
            /\ unit' = [unit EXCEPT !.th[x].flushed = TRUE]
       ELSE /\ store' = release_page(store, Head(unit.th[x].pages))
            /\ unit' = [unit EXCEPT !.th[x].flushed = FALSE,
                                    !.th[x].pages = Tail(@)]
    /\ UNCHANGED <<tm, txns, scans, proc, master, ckpt, hist, index, ops>>

NextCache ==
    \E x \in XIDs :
        \/ \E num \in 0..MaxPages : CacheFetch(x, num)
        \/ CacheNew(x)
        \/ CacheWrite(x)
        \/ CacheRelease(x)
        \/ SyncPages(x)
        \/ SyncStep(x)

SpecCache == InitCache /\ [][NextCache]_vars

(* frame i is the one the page hash gives for its tag *)
Mapped(i) == page_hash(store, store.pool[i].num) = i

InLru(i) == \E k \in 1..Len(store.lru) : store.lru[k].slot = i

(* the pins the threads hold on frame i *)
HeldPins(i) ==
    Cardinality({x \in XIDs : unit.th[x].slot = i})
    + Cardinality({x \in XIDs : \E k \in 1..Len(unit.th[x].pages) :
                                     unit.th[x].pages[k] = i})

(* what a fetch of page n yields: the buffer of its frame, else the page   *)
(* of the file                                                             *)
PageView(n) ==
    IF page_hash(store, n) # 0 THEN store.pool[page_hash(store, n)].page
    ELSE store.file[n + 1]

(* C34: once fetch_page, new_page or sync_pages has failed, the cache is   *)
(* still consistent: a mapped frame holds the contents of a page of the    *)
(* file (it is dirty, or equal to the page on disk), no write to a dirty   *)
(* page is dropped, no frame is pinned beyond the pins the threads hold,   *)
(* and every unpinned mapped frame is in the LRU                           *)
C34_ConsistentAfterFailure ==
    (unit.kind = "cache" /\ unit.failed # "none") =>
        /\ \A i \in 1..Len(store.pool) :
               /\ store.pool[i].pin_count = HeldPins(i)
               /\ (Mapped(i) /\ store.pool[i].pin_count = 0) =>
                      /\ InLru(i)
                      /\ store.pool[i].num < Len(store.file)
                      /\ store.pool[i].dirty
                         \/ store.pool[i].page = store.file[store.pool[i].num + 1]
        /\ \A n \in 0..MaxPages :
               unit.last[n] # 0 =>
                   /\ n < Len(store.file) \/ page_hash(store, n) # 0
                   /\ PageView(n) = Content(unit.last[n])


(* C35: the cache behaves like one page store: a fetch of a page yields    *)
(* the content last written to it through a pinned frame marked dirty,     *)
(* whatever evictions, fetches by other threads and sync_pages calls came  *)
(* in between, and no two frames are mapped to one page                    *)
C35_SinglePageStore ==
    unit.kind = "cache" =>
        /\ \A n \in 0..MaxPages :
               unit.last[n] # 0 =>
                   /\ n < Len(store.file) \/ page_hash(store, n) # 0
                   /\ PageView(n) = Content(unit.last[n])
        /\ \A i, j \in 1..Len(store.pool) :
               (Mapped(i) /\ Mapped(j) /\ store.pool[i].num = store.pool[j].num)
                   => i = j

(* C36: between the holds of the cache mutex a frame is in the LRU exactly *)
(* when it is mapped in the page hash and its pin count is 0; a frame in   *)
(* the LRU, from which the victims are taken, is never pinned, and no pin  *)
(* count is below 0                                                        *)
C36_LruIsUnpinnedMapped ==
    unit.kind = "cache" =>
        \A i \in 1..Len(store.pool) :
            /\ InLru(i) <=> (Mapped(i) /\ store.pool[i].pin_count = 0)
            /\ store.pool[i].pin_count >= 0


(* ---- downlinks (SpecBTree) ---- *)
(* the downlinks to data page n on the internal pages: (page, offset).     *)
(* The level field of the pages is no guide: split_page leaves it 0 on     *)
(* both halves.                                                            *)
DownlinksTo(n) ==
    UNION {{<<p, i>> : i \in {k \in first_key_offset(index[p + 1])
                                      ..num_line_pointers(index[p + 1]) :
                                 get_downlink(index[p + 1].items[k]) = n}} :
           p \in {q \in 1..(Len(index) - 1) : page_type(index[q + 1]) = "Internal"}}

(* C37: after every completed insert each page but the root is referenced  *)
(* by exactly one downlink of the level above, and the downlink that       *)
(* follows the one to a page on a parent carries the high key of that page *)
(* and points to its right sibling, a page of the same kind                *)
C37_OneDownlink ==
    (unit.kind = "btree" /\ unit.ok) =>
        /\ \A n \in 1..(Len(index) - 1) :
               n # index[1].root => Cardinality(DownlinksTo(n)) = 1
        /\ \A p \in 1..(Len(index) - 1) :
               page_type(index[p + 1]) = "Internal" =>
                   \A i \in first_key_offset(index[p + 1])
                                ..(num_line_pointers(index[p + 1]) - 1) :
                       LET left == index[get_downlink(index[p + 1].items[i]) + 1]
                           down == index[p + 1].items[i + 1]
                       IN  /\ left.next = get_downlink(down)
                           /\ down.key = left.items[high_key_offset].key
                           /\ page_type(left)
                                  = page_type(index[get_downlink(down) + 1])

(* leaves that are not the root were split, at the left end, at the right  *)
(* end and in between, and a parent holds four downlinks                   *)
C37_Witness ==
    /\ unit.kind = "btree" /\ unit.ok
    /\ {"leftmost", "rightmost", "middle"} \subseteq unit.splits
    /\ \E p \in 1..(Len(index) - 1) :
           /\ page_type(index[p + 1]) = "Internal"
           /\ num_line_pointers(index[p + 1]) - first_key_offset(index[p + 1]) >= 3


(* ======================================================================= *)
(* BTree::binary_search_page on its own, over sorted pages                 *)
(* ======================================================================= *)
MaxEntries == 3

(* (key, item pointer) pairs in the order of compare_key *)
pair_le(a, b) ==
    \/ key_comparator(a.key, b.key) < 0
    \/ key_comparator(a.key, b.key) = 0 /\ item_pointer_cmp(a.ptr, b.ptr) <= 0

(* The entries of a leaf are sorted by key and item pointer, as            *)
(* find_insert_location places them; the downlinks of an internal page are *)
(* sorted by key, and it has at least one                                  *)
SortedEntries(type) ==
    LET ptrs == IF type = "Leaf" THEN {<<1, 1>>, <<1, 2>>} ELSE {<<2, 0>>, <<3, 0>>}
        E == {IndexTuple(k, 0, ptr) : k \in 0..MaxKey, ptr \in ptrs}
        all == UNION {[1..n -> E] : n \in (IF type = "Leaf" THEN 0 ELSE 1)..MaxEntries}
    IN  {s \in all : \A i \in 1..(Len(s) - 1) :
                         IF type = "Leaf" THEN pair_le(s[i], s[i + 1])
                         ELSE s[i].key <= s[i + 1].key}

SearchPageOf(type, rightmost, entries) ==
    LET items == IF rightmost THEN entries
                 ELSE <<IndexTuple(MaxKey + 1, 0, <<0, 0>>)>> \o entries
    IN  [btree_init_page(ZeroPage) EXCEPT
            !.flags = IF type = "Leaf" THEN {"IS_LEAF"} ELSE {},
            !.next = IF rightmost THEN 0 ELSE 9,
            !.lower = P_POINTERS + LINE_POINTER_SIZE * Len(items),
            !.items = items]

(* the searches of the tree give the default item pointer on internal      *)
(* pages (search_tree, get_insert_location), the pointer of the new tuple  *)
(* on a leaf (find_insert_location)                                        *)
InitSearch ==
    \E type \in {"Leaf", "Internal"}, rightmost \in BOOLEAN, key \in -1..(MaxKey + 1) :
        \E entries \in SortedEntries(type) :
            \E item_ptr \in (IF type = "Leaf" THEN {<<0, 0>>, <<1, 1>>, <<1, 2>>, <<1, 3>>}
                             ELSE {<<0, 0>>}) :
                InitUnit([kind |-> "search", key |-> key, item_ptr |-> item_ptr,
                          page |-> SearchPageOf(type, rightmost, entries),
                          done |-> FALSE, offset |-> 0])

SearchPage ==
    /\ unit.kind = "search" /\ ~unit.done
    /\ unit' = [unit EXCEPT
           !.done = TRUE,
           !.offset = binary_search_page(unit.page, unit.key, unit.item_ptr, FALSE)]
    /\ UNCHANGED <<store, tm, txns, scans, proc, master, ckpt, hist, index, ops>>

NextSearch == SearchPage

SpecSearch == InitSearch /\ [][NextSearch]_vars

(* the lower-bound slot: the first offset from the first key on whose      *)
(* entry is not below the search key, one past the last entry when there   *)
(* is none; the first key of an internal page is below every search key    *)
LowerBound ==
    LET p == unit.page
        first == first_key_offset(p)
        last == num_line_pointers(p)
        S == {i \in first..last :
                 /\ ~(page_type(p) = "Internal" /\ i = first)
                 /\ pair_le([key |-> unit.key, ptr |-> unit.item_ptr], p.items[i])}
    IN  IF S = {} THEN last + 1 ELSE CHOOSE i \in S : \A j \in S : i <= j

(* C38: on a sorted page binary_search_page returns the lower-bound slot   *)
(* on a leaf and that slot minus 1 on an internal page, where it is the    *)
(* slot of a downlink: not the high-key slot, not below the first key      *)
C38_LowerBound ==
    (unit.kind = "search" /\ unit.done) =>
        IF page_type(unit.page) = "Leaf"
        THEN unit.offset = LowerBound
        ELSE /\ unit.offset = LowerBound - 1
             /\ unit.offset >= first_key_offset(unit.page)
             /\ unit.offset <= num_line_pointers(unit.page)
             /\ is_rightmost(unit.page) \/ unit.offset # high_key_offset

(* an internal page with a high key and equal keys on two downlinks,       *)
(* searched for that key: the downlink before the first of them            *)
C38_Witness ==
    /\ unit.kind = "search" /\ unit.done
    /\ page_type(unit.page) = "Internal" /\ ~is_rightmost(unit.page)
    /\ num_line_pointers(unit.page) = MaxEntries + 1
    /\ unit.page.items[3].key = unit.key /\ unit.page.items[4].key = unit.key
    /\ unit.offset = first_key_offset(unit.page)


(* ======================================================================= *)
(* The XID allocator against the status table                              *)
(* (concurrency/transaction_manager.rs, transaction_table.rs)              *)
(* Threads start one transaction each while next_xid crosses from status   *)
(* page 0 to page 1, and then log a heap insert and a commit.              *)
(* ======================================================================= *)
MaxStarts == 3
ZeroPageLogLen == 20

Starters == 1..MaxStarts

transaction_to_page_num(x) == x \div TXNS_PER_PAGE

transaction_to_page_index(x) == x % TXNS_PER_PAGE

(* TransactionTable::extend without its log record *)
table_extend_unlogged(t, wal, x) ==
    IF is_invalid(x) \/ transaction_to_page_index(x) # 0
    THEN [t |-> t, wal |-> wal, pos |-> -1]
    ELSE LET made == table_new_page(t, transaction_to_page_num(x))
         IN  [t |-> table_put_page(made.t, made.page), wal |-> wal, pos |-> -1]

(* TransactionTable::extend(db, xid); pos is where its record starts,      *)
(* -1 when it writes none                                                  *)
table_extend(t, wal, x) ==
    IF is_invalid(x) \/ transaction_to_page_index(x) # 0
    THEN [t |-> t, wal |-> wal, pos |-> -1]
    ELSE LET page_num == transaction_to_page_num(x)
             made == table_new_page(t, page_num)
             logged == append_raw(wal, [kind |-> "ZeroPage", xid |-> 0,
                                        page_num |-> page_num], ZeroPageLogLen)
         IN  [t |-> table_put_page(made.t, made.page), wal |-> logged.wal,
              pos |-> logged.start_pos]

(* next_xid is the last XID of page 0 or the first of page 1; lock is the  *)
(* holder of the mutex of next_xid (0: free); log lists the records in the *)
(* order of their appends with their start positions                       *)
InitExtend ==
    \E first \in {TXNS_PER_PAGE - 1, TXNS_PER_PAGE} :
        InitUnit([kind |-> "extend", next_xid |-> first, lock |-> 0,
                  t |-> table_open(<<>>),
                  active_xids |-> {}, log |-> <<>>,
                  th |-> [i \in Starters |-> [pc |-> "idle", xid |-> 0]]])

(* get_next_xid: the mutex of next_xid is taken and the XID read *)
ExtLock(i) ==
    /\ unit.kind = "extend" /\ unit.th[i].pc = "idle" /\ unit.lock = 0
    /\ unit' = [unit EXCEPT !.lock = i,
                            !.th[i] = [pc |-> "locked", xid |-> unit.next_xid]]
    /\ UNCHANGED <<store, tm, txns, scans, proc, master, ckpt, hist, index, ops>>

(* ... the table is locked and extended for this XID *)
ExtExtend(i) ==
    /\ unit.kind = "extend" /\ unit.th[i].pc = "locked"
    /\ LET extended(a) ==
               /\ store' = [store EXCEPT !.wal = a.wal]
               /\ unit' = [unit EXCEPT
                      !.t = a.t, !.th[i].pc = "extended",
                      !.log = IF a.pos < 0 THEN @
                              ELSE Append(@, [kind |-> "ZeroPage", xid |-> 0,
                                              page_num |->
                                                  transaction_to_page_num(unit.th[i].xid),
                                              pos |-> a.pos])]
       IN  extended(table_extend(unit.t, store.wal, unit.th[i].xid))
    /\ UNCHANGED <<tm, txns, scans, proc, master, ckpt, hist, index, ops>>

(* ... next_xid is advanced and the mutex released *)
ExtUnlock(i) ==
    /\ unit.kind = "extend" /\ unit.th[i].pc = "extended"
    /\ unit' = [unit EXCEPT !.next_xid = inc(@), !.lock = 0,
                            !.th[i].pc = "allocated"]
    /\ UNCHANGED <<store, tm, txns, scans, proc, master, ckpt, hist, index, ops>>

(* start_transaction: the XID enters the active set *)
ExtRegister(i) ==
    /\ unit.kind = "extend" /\ unit.th[i].pc = "allocated"
    /\ unit' = [unit EXCEPT !.active_xids = @ \cup {unit.th[i].xid},
                            !.th[i].pc = "active"]
    /\ UNCHANGED <<store, tm, txns, scans, proc, master, ckpt, hist, index, ops>>

(* the transaction logs a heap insert, then its commit *)
ExtRecord(i) ==
    /\ unit.kind = "extend" /\ unit.th[i].pc \in {"active", "inserted"}
    /\ LET kind == IF unit.th[i].pc = "active" THEN "HeapInsert" ELSE "Commit"
           len == IF kind = "Commit" THEN CommitLogLen ELSE HeapInsertLogLen + TinyLen
           appended(a) ==
               /\ store' = [store EXCEPT
                      !.wal = IF kind = "Commit" THEN wal_flush(a.wal, a.end_pos)
                              ELSE a.wal]
               /\ unit' = [unit EXCEPT
                      !.th[i].pc = IF kind = "Commit" THEN "committed" ELSE "inserted",
                      !.log = Append(@, [kind |-> kind, xid |-> unit.th[i].xid,
                                         page_num |-> 0, pos |-> a.start_pos])]
       IN  appended(append_raw(store.wal, [kind |-> kind, xid |-> unit.th[i].xid], len))
    /\ UNCHANGED <<tm, txns, scans, proc, master, ckpt, hist, index, ops>>

NextExtend ==
    \/ \E i \in Starters : ExtLock(i)
    \/ \E i \in Starters : ExtExtend(i)
    \/ \E i \in Starters : ExtUnlock(i)
    \/ \E i \in Starters : ExtRegister(i)
    \/ \E i \in Starters : ExtRecord(i)

SpecExtend == InitExtend /\ [][NextExtend]_vars

ZeroPageBefore(p, pos) ==
    \E k \in 1..Len(unit.log) :
        /\ unit.log[k].kind = "ZeroPage" /\ unit.log[k].page_num = p
        /\ unit.log[k].pos < pos

(* C39: once the XID at index 0 of a status page p >= 1 is allocated the   *)
(* log holds a zero-page record of p, and every record with an XID of page *)
(* p starts after a zero-page record of p, however the starts interleave   *)
C39_ZeroPageFirst ==
    unit.kind = "extend" =>
        /\ \A i \in Starters :
               (/\ unit.th[i].pc \notin {"idle", "locked"}
                /\ transaction_to_page_index(unit.th[i].xid) = 0
                /\ transaction_to_page_num(unit.th[i].xid) >= 1)
               => ZeroPageBefore(transaction_to_page_num(unit.th[i].xid),
                                 current_lsn(store.wal.seg))
        /\ \A k \in 1..Len(unit.log) :
               (unit.log[k].kind # "ZeroPage"
                /\ transaction_to_page_num(unit.log[k].xid) >= 1)
               => ZeroPageBefore(transaction_to_page_num(unit.log[k].xid),
                                 unit.log[k].pos)

(* a later XID of page 1 logged its records while the transaction with the *)
(* first XID of the page has not yet logged any                            *)
C39_Witness ==
    /\ unit.kind = "extend"
    /\ \E i \in Starters : \E j \in Starters \ {i} :
           /\ unit.th[i].xid = TXNS_PER_PAGE /\ unit.th[i].pc = "allocated"
           /\ unit.th[j].xid = TXNS_PER_PAGE + 1 /\ unit.th[j].pc = "committed"
    /\ unit.log[1].kind = "HeapInsert"


(* ---- hint bits against the log ---- *)
(* The XIDs a page marks as committed by a hint bit *)
HintedCommitted(page) ==
    {page.items[k].min_xid : k \in {j \in 1..Len(page.items) :
                                        "MIN_XID_COMMITTED" \in page.items[j].flags}}
    \cup {page.items[k].max_xid : k \in {j \in 1..Len(page.items) :
                                             "MAX_XID_COMMITTED" \in page.items[j].flags}}

(* The commit record of x is in the log file *)
CommitDurable(x) ==
    \/ CommitClosed(x)
    \/ /\ CommitChunks(x) # {}
       /\ \A c \in CommitChunks(x) :
              c.off + RECORD_HEADER_SIZE + c.len <= store.wal.seg.size

(* C40: a tuple carries a committed hint bit, in a frame of the cache or   *)
(* in the relation file, only when the commit record of that XID is in the *)
(* log file; the hint bits leave the page LSN as it was                    *)
C40_HintAfterCommitFlush ==
    /\ \A i \in 1..Len(store.pool) :
           \A x \in HintedCommitted(store.pool[i].page) : CommitDurable(x)
    /\ \A n \in 1..Len(store.file) :
           \A x \in HintedCommitted(store.file[n]) : CommitDurable(x)

(* a page with a committed hint bit is in the relation file, its LSN below *)
(* the position of the commit record the bit stands for                    *)
C40_Witness ==
    /\ proc = "running"
    /\ \E n \in 1..Len(store.file) :
           \E x \in HintedCommitted(store.file[n]) :
               \E c \in CommitChunks(x) :
                   store.file[n].lsn <= segment_start(store.wal.seg) + c.off
====
